---- MODULE Spec2Model ----
(***************************************************************************)
(* The session / graph-metadata state machine of the KumoRFM MCP server.   *)
(*                                                                         *)
(* State: the default session (initialized flag, credentials), its graph   *)
(* (ordered tables with column metadata, ordered links) and its optional   *)
(* model handle.  One action per tool handler.  The kumoai SDK objects     *)
(* (LocalGraph, LocalTable, KumoRFM, kumo.init) are external collaborators:*)
(* their operations are the Graph* / Table* operators below, and their     *)
(* failures are nondeterministic inputs of the handlers that call them.    *)
(***************************************************************************)
EXTENDS Integers, Sequences, FiniteSets, TLC

\* ------------------------------------------------------------------ bounds
MaxAuthCalls == 3
MaxRetrievals == 2
MaxHandles == 2
MaxLinks == 2

\* ------------------------------------------------------------- null values
None == "None"
NoModel == 0

\* ---------------------------------------------------------- data sources
\* The files a caller can name.  ext decides load support; exists decides
\* whether pandas can read it; columns are the loaded frame's columns.
Files ==
    { [path |-> "users.csv",      ext |-> "csv",     exists |-> TRUE],
      [path |-> "orders.parquet", ext |-> "parquet", exists |-> TRUE],
      [path |-> "gone.csv",       ext |-> "csv",     exists |-> FALSE],
      [path |-> "notes.txt",      ext |-> "txt",     exists |-> TRUE],
      [path |-> "ORDERS.parquet", ext |-> "parquet", exists |-> TRUE],
      [path |-> "STORES.csv",     ext |-> "csv",     exists |-> TRUE],
      [path |-> "employees.csv",   ext |-> "csv",    exists |-> TRUE],
      [path |-> "departments.csv", ext |-> "csv",    exists |-> TRUE] }

FileColumns(path) ==
    CASE path = "users.csv"      -> {"USER_ID", "AGE"}
      [] path = "orders.parquet" -> {"USER_ID", "TIME"}
      [] path = "ORDERS.parquet" -> {"USER_ID", "STORE_ID", "TIME"}
      [] path = "STORES.csv"     -> {"STORE_ID", "CAT"}
      [] path = "employees.csv"   -> {"EMP_ID", "MANAGER_ID", "DEPT_ID"}
      [] path = "departments.csv" -> {"DEPT_ID", "HEAD_ID"}
      [] OTHER                   -> {}

\* Schema inference of the SDK (LocalTable.infer_metadata): per column stype.
InferredStype(col) ==
    CASE col = "USER_ID" -> "ID"
      [] col = "STORE_ID" -> "ID"
      [] col \in {"EMP_ID", "MANAGER_ID", "DEPT_ID", "HEAD_ID"} -> "ID"
      [] col = "AGE"     -> "numerical"
      [] col = "CAT"     -> "categorical"
      [] col = "TIME"    -> "timestamp"
      [] OTHER           -> None

Stypes == {"ID", "numerical", "categorical", "timestamp"}

VARIABLES
    env_api_key,    \* os.getenv("KUMO_API_KEY"): None or a key
    env_api_url,    \* os.getenv("KUMO_API_URL"): None or a url
    session_data,   \* SessionState._session_data
    auth_calls,     \* number of kumo.init invocations so far
    retrievals,     \* number of get_session calls so far
    retrieved,      \* the session instances get_session has returned
    tables,         \* session.graph.tables, in insertion order
    links,          \* session.graph.edges, in insertion order
    model,          \* session.model: NoModel or a handle id
    handles,        \* number of KumoRFM handles built so far
    result,         \* what the last operation gave back to its caller
    last_update,    \* the argument of the last recorded update_graph_metadata
    catalog,        \* session.catalog: whether the session has the attribute,
                    \* and its entries table name -> source path
    authenticated,  \* whether the last kumo.init call completed successfully
    threads         \* where each thread of control stands inside a call, with
                    \* the locals it holds there

vars == << env_api_key, env_api_url, session_data, auth_calls, retrievals,
           retrieved, tables, links, model, handles, result, last_update,
           catalog, authenticated, threads >>

session_vars == << env_api_key, env_api_url, session_data, auth_calls,
                   retrievals, retrieved, authenticated, threads >>
graph_vars == << tables, links >>

\* The one SessionData instance the class attribute holds.
DefaultInstance == 1

\* The threads of control that can be inside a call at the same time: the
\* event loop's tasks and the worker threads asyncio.to_thread starts.
Threads == {"a", "b"}

\* A thread that is inside no call.
Idle == [at |-> "idle"]

\* A result: op that ran, success flag, how it left the handler ("returned" a
\* value or "raised" an exception), the external calls it made, in order,
\* the argument the message names (None when it names none) and the data it
\* carries (None when it carries none).
Result(op, ok, how, msg, calls) ==
    [op |-> op, ok |-> ok, how |-> how, msg |-> msg, calls |-> calls,
     arg |-> None, data |-> None]

NoUpdate == << >>

\* ------------------------------------------------------------ session.py
DefaultApiUrl == "https://kumorfm.ai/api"

get_session == DefaultInstance

\* SessionState.initialize with the outcome of kumo.init as input.
initialize(init_ok) ==
    /\ auth_calls < MaxAuthCalls
    /\ LET api_url == IF env_api_url = None THEN DefaultApiUrl ELSE env_api_url
       IN  IF env_api_key # None
           THEN /\ session_data' =
                      [session_data EXCEPT !.api_key = env_api_key,
                                           !.api_url = api_url,
                                           !.initialized = init_ok]
                /\ auth_calls' = auth_calls + 1
                /\ authenticated' = init_ok
                /\ result' = Result("initialize", init_ok, "returned",
                                    IF init_ok THEN "auto-initialized"
                                    ELSE "Auto-initialization failed",
                                    << "kumo.init" >>)
           ELSE /\ session_data' = [session_data EXCEPT !.initialized = FALSE]
                /\ auth_calls' = auth_calls
                /\ UNCHANGED authenticated
                /\ result' = Result("initialize", FALSE, "returned",
                                    "KUMO_API_KEY not set", << >>)
    /\ UNCHANGED << env_api_key, env_api_url, retrievals, retrieved,
                    tables, links, model, handles, last_update, catalog,
                    threads >>

\* A direct SessionState.get_session() call by a client of the class.
get_session_call ==
    /\ retrievals < MaxRetrievals
    /\ retrievals' = retrievals + 1
    /\ retrieved' = retrieved \cup {get_session}
    /\ result' = Result("get_session", TRUE, "returned", "session", << >>)
    /\ UNCHANGED << env_api_key, env_api_url, session_data, auth_calls,
                    tables, links, model, handles, last_update, catalog,
                    authenticated, threads >>


\* --------------------------------------------------- kumoai SDK: tables
\* A table: its name, source path, primary key, time column and the semantic
\* type of every data column (None: the column has been discarded).
Link(s, k, d) ==
    [source_table |-> s, foreign_key |-> k, destination_table |-> d]

TableNames(ts) == { ts[i].name : i \in DOMAIN ts }

HasTable(ts, name) == name \in TableNames(ts)

TableIndex(ts, name) == CHOOSE i \in DOMAIN ts : ts[i].name = name

GetTable(ts, name) == ts[TableIndex(ts, name)]

HasColumn(t, col) == col \in DOMAIN t.stypes /\ t.stypes[col] # None

\* What the SDK's detection heuristics may pick for a freshly loaded frame.
PkCandidate(path) ==
    CASE path = "users.csv"  -> "USER_ID"
      [] path = "STORES.csv" -> "STORE_ID"
      [] path = "employees.csv"   -> "EMP_ID"
      [] path = "departments.csv" -> "DEPT_ID"
      [] OTHER               -> None

TcCandidate(path) ==
    IF path \in {"orders.parquet", "ORDERS.parquet"} THEN "TIME" ELSE None

Inferences == { [pk |-> b, tc |-> b] : b \in BOOLEAN }

\* rfm.LocalTable(df, name).infer_metadata(verbose=False)
InferMetadata(path, name, infer) ==
    [name |-> name,
     path |-> path,
     primary_key |-> IF infer.pk THEN PkCandidate(path) ELSE None,
     time_column |-> IF infer.tc THEN TcCandidate(path) ELSE None,
     stypes |-> [c \in FileColumns(path) |-> InferredStype(c)]]

\* Semantic types a column's data type supports.
SupportedStypes(col) ==
    CASE col = "USER_ID" -> {"ID", "numerical"}
      [] col = "STORE_ID" -> {"ID", "numerical"}
      [] col = "AGE"     -> {"numerical", "categorical"}
      [] col = "CAT"     -> {"categorical"}
      [] col = "TIME"    -> {"timestamp"}
      [] OTHER           -> {}

ReplaceTable(ts, name, t) == [ts EXCEPT ![TableIndex(ts, name)] = t]

\* ------------------------------------------------------ session catalog
\* The session of session.py has no catalog attribute; a session that has one
\* starts with an empty catalog.  Every use is guarded by hasattr.
NoCatalog == [attached |-> FALSE, entries |-> {}]

EmptyCatalog == [attached |-> TRUE, entries |-> {}]

CatalogNames(c) == { e.name : e \in c.entries }

\* if hasattr(session, 'catalog'): session.catalog[name] = TableSource(path)
CatalogPut(c, name, path) ==
    IF ~c.attached THEN c
    ELSE [c EXCEPT !.entries = { e \in @ : e.name # name }
                                  \cup {[name |-> name, path |-> path]}]

\* if hasattr(session, 'catalog') and name in session.catalog: del ...
CatalogDrop(c, name) ==
    IF ~c.attached THEN c
    ELSE [c EXCEPT !.entries = { e \in @ : e.name # name }]

\* session.catalog.clear(), then one entry per table added.
CatalogOf(c, ts) ==
    IF ~c.attached THEN c
    ELSE [c EXCEPT !.entries =
             { [name |-> ts[i].name, path |-> ts[i].path] : i \in DOMAIN ts }]

\* The path inspect_metadata reports for a table: '' without an entry.
CatalogPath(c, name) ==
    IF c.attached /\ name \in CatalogNames(c)
    THEN (CHOOSE e \in c.entries : e.name = name).path
    ELSE ""

\* --------------------------------------------------- kumoai SDK: graph
CanAddTable(ts, name) == ~HasTable(ts, name)

CanRemoveTable(ts, name) == HasTable(ts, name)

\* LocalGraph.remove_table: drops the table and every link touching it.
RemoveTableTables(ts, name) ==
    LET Keep(t) == t.name # name IN SelectSeq(ts, Keep)

RemoveTableLinks(ls, name) ==
    LET Keep(l) == l.source_table # name /\ l.destination_table # name
    IN  SelectSeq(ls, Keep)

LinkSet(ls) == { ls[i] : i \in DOMAIN ls }

CanLink(ts, ls, l) ==
    /\ HasTable(ts, l.source_table)
    /\ HasTable(ts, l.destination_table)
    /\ HasColumn(GetTable(ts, l.source_table), l.foreign_key)
    /\ GetTable(ts, l.destination_table).primary_key # None
    /\ GetTable(ts, l.source_table).primary_key # l.foreign_key
    /\ l \notin LinkSet(ls)

CanUnlink(ls, l) == l \in LinkSet(ls)

UnlinkLinks(ls, l) == LET Keep(x) == x # l IN SelectSeq(ls, Keep)

\* LocalGraph.validate: every invariant of tables and links.
TableValid(t) ==
    /\ t.primary_key # None =>
          HasColumn(t, t.primary_key) /\ t.stypes[t.primary_key] = "ID"
    /\ t.time_column # None =>
          HasColumn(t, t.time_column) /\ t.stypes[t.time_column] = "timestamp"
    /\ t.primary_key # None => t.primary_key # t.time_column

LinkValid(ts, l) ==
    /\ HasTable(ts, l.source_table)
    /\ HasTable(ts, l.destination_table)
    /\ HasColumn(GetTable(ts, l.source_table), l.foreign_key)
    /\ GetTable(ts, l.destination_table).primary_key # None
    /\ GetTable(ts, l.source_table).primary_key # l.foreign_key

Validate(ts, ls) ==
    /\ \A i \in DOMAIN ts : TableValid(ts[i])
    /\ \A i \in DOMAIN ls : LinkValid(ts, ls[i])

\* What the error of LocalGraph.validate describes: every table and every
\* link that breaks an invariant.
Violations(ts, ls) ==
    [tables |-> { ts[i].name : i \in { j \in DOMAIN ts : ~TableValid(ts[j]) } },
     links |-> { ls[i] : i \in { j \in DOMAIN ls : ~LinkValid(ts, ls[j]) } }]

\* LocalGraph.infer_links: a column named like another table's primary key
\* becomes a link to that table, pairs taken in table order.
InferCandidate(ts, ls, i, j) ==
    /\ i # j
    /\ ts[j].primary_key # None
    /\ CanLink(ts, ls, Link(ts[i].name, ts[j].primary_key, ts[j].name))

RECURSIVE InferFrom(_, _, _)
InferFrom(ts, ls, n) ==
    IF n >= Len(ts) * Len(ts) THEN ls
    ELSE LET i == (n \div Len(ts)) + 1
             j == (n % Len(ts)) + 1
         IN  IF InferCandidate(ts, ls, i, j)
             THEN InferFrom(ts,
                      Append(ls, Link(ts[i].name, ts[j].primary_key, ts[j].name)),
                      n + 1)
             ELSE InferFrom(ts, ls, n + 1)

InferLinks(ts, ls) == InferFrom(ts, ls, 0)


\* ------------------------------------------------------- tool handlers
\* Every handler leaves the session's credentials and counters alone.
Handler(op, ok, how, msg, calls) ==
    /\ result' = Result(op, ok, how, msg, calls)
    /\ UNCHANGED session_vars

Returned(op, ok, msg, calls) == Handler(op, ok, "returned", msg, calls)

Raised(op, msg, calls) == Handler(op, FALSE, "raised", msg, calls)

\* return dict(success=..., message=f"... '{arg}' ..."): a result that
\* carries the arguments of the call it answers.
ReturnedNaming(op, ok, msg, calls, arg) ==
    /\ result' = [Result(op, ok, "returned", msg, calls) EXCEPT !.arg = arg]
    /\ UNCHANGED session_vars

\* return dict(success=..., message=..., data=data), for the call with arg.
ReturnedData(op, ok, msg, arg, data) ==
    /\ result' = [Result(op, ok, "returned", msg, << >>)
                     EXCEPT !.arg = arg, !.data = data]
    /\ UNCHANGED session_vars

\* A variant of add_table that puts the new table in front of the others.
add_table_prepending(file, name, infer) ==
    LET arg == [path |-> file.path, name |-> name]
    IN  /\ IF file.ext \notin {"csv", "parquet"}
           THEN /\ ReturnedNaming("add_table", FALSE, "Can not read file",
                                  << >>, arg)
                /\ UNCHANGED << tables, links, model, handles, catalog >>
           ELSE IF ~file.exists
           THEN /\ ReturnedNaming("add_table", FALSE,
                                  "Could not load data source", << "read" >>, arg)
                /\ UNCHANGED << tables, links, model, handles, catalog >>
           ELSE IF ~CanAddTable(tables, name)
           THEN /\ ReturnedNaming("add_table", FALSE, "Failed to register table",
                        << "read", "infer_metadata", "graph.add_table" >>, arg)
                /\ UNCHANGED << tables, links, model, handles, catalog >>
           ELSE /\ tables' =
                      << InferMetadata(file.path, name, infer) >> \o tables
                /\ ReturnedNaming("add_table", TRUE, "added successfully",
                        << "read", "infer_metadata", "graph.add_table" >>, arg)
                /\ catalog' = CatalogPut(catalog, name, file.path)
                /\ UNCHANGED << links, model, handles >>
        /\ UNCHANGED last_update

\* A variant of add_table for which a name that is already taken replaces
\* the table registered under it.
add_table_replacing(file, name, infer) ==
    LET arg == [path |-> file.path, name |-> name]
    IN  /\ IF file.ext \notin {"csv", "parquet"}
           THEN /\ ReturnedNaming("add_table", FALSE, "Can not read file",
                                  << >>, arg)
                /\ UNCHANGED << tables, links, model, handles, catalog >>
           ELSE IF ~file.exists
           THEN /\ ReturnedNaming("add_table", FALSE,
                                  "Could not load data source", << "read" >>, arg)
                /\ UNCHANGED << tables, links, model, handles, catalog >>
           ELSE /\ tables' =
                      IF HasTable(tables, name)
                      THEN ReplaceTable(tables, name,
                                        InferMetadata(file.path, name, infer))
                      ELSE Append(tables, InferMetadata(file.path, name, infer))
                /\ ReturnedNaming("add_table", TRUE, "added successfully",
                        << "read", "infer_metadata", "graph.add_table" >>, arg)
                /\ catalog' = CatalogPut(catalog, name, file.path)
                /\ UNCHANGED << links, model, handles >>
        /\ UNCHANGED last_update

\* tools/table_tools.py add_table(path, name); the result names the path and
\* the name the call was made with.
add_table(file, name, infer) ==
    LET arg == [path |-> file.path, name |-> name]
    IN  /\ IF file.ext \notin {"csv", "parquet"}
           THEN /\ ReturnedNaming("add_table", FALSE, "Can not read file",
                                  << >>, arg)
                /\ UNCHANGED << tables, links, model, handles, catalog >>
           ELSE IF ~file.exists
           THEN /\ ReturnedNaming("add_table", FALSE,
                                  "Could not load data source", << "read" >>, arg)
                /\ UNCHANGED << tables, links, model, handles, catalog >>
           ELSE IF ~CanAddTable(tables, name)
           THEN /\ ReturnedNaming("add_table", FALSE, "Failed to register table",
                        << "read", "infer_metadata", "graph.add_table" >>, arg)
                /\ UNCHANGED << tables, links, model, handles, catalog >>
           ELSE /\ tables' = Append(tables, InferMetadata(file.path, name, infer))
                /\ ReturnedNaming("add_table", TRUE, "added successfully",
                        << "read", "infer_metadata", "graph.add_table" >>, arg)
                /\ catalog' = CatalogPut(catalog, name, file.path)
                /\ UNCHANGED << links, model, handles >>
        /\ UNCHANGED last_update

\* A variant of remove_table that drops the table and keeps its links.
remove_table_keeping_links(name) ==
    /\ IF CanRemoveTable(tables, name)
       THEN /\ tables' = RemoveTableTables(tables, name)
            /\ catalog' = CatalogDrop(catalog, name)
            /\ ReturnedNaming("remove_table", TRUE, "removed successfully",
                              << >>, name)
       ELSE /\ ReturnedNaming("remove_table", FALSE, "Failed to remove table",
                              << >>, name)
            /\ UNCHANGED << tables, catalog >>
    /\ UNCHANGED << links, model, handles, last_update >>

\* tools/table_tools.py remove_table(name)
remove_table(name) ==
    /\ IF CanRemoveTable(tables, name)
       THEN /\ tables' = RemoveTableTables(tables, name)
            /\ links' = RemoveTableLinks(links, name)
            /\ catalog' = CatalogDrop(catalog, name)
            /\ ReturnedNaming("remove_table", TRUE, "removed successfully",
                              << "graph.remove_table" >>, name)
       ELSE /\ ReturnedNaming("remove_table", FALSE, "Failed to remove table",
                              << "graph.remove_table" >>, name)
            /\ UNCHANGED << tables, links, catalog >>
    /\ UNCHANGED << model, handles, last_update >>

\* A variant of link_tables that refuses a link from a table to itself and a
\* link opposite to one that is already in the graph.
link_tables_acyclic(l) ==
    /\ IF /\ CanLink(tables, links, l)
          /\ l.source_table # l.destination_table
          /\ \A i \in DOMAIN links :
                ~(/\ links[i].source_table = l.destination_table
                  /\ links[i].destination_table = l.source_table)
       THEN /\ Len(links) < MaxLinks
            /\ links' = Append(links, l)
            /\ ReturnedNaming("link_tables", TRUE, "Successfully linked",
                              << "graph.link" >>, l)
       ELSE /\ ReturnedNaming("link_tables", FALSE, "Failed to link",
                              << "graph.link" >>, l)
            /\ UNCHANGED links
    /\ UNCHANGED << tables, model, handles, last_update, catalog >>

\* A variant of link_tables that records the link without the store's checks.
link_tables_unchecked(l) ==
    /\ Len(links) < MaxLinks
    /\ links' = Append(links, l)
    /\ ReturnedNaming("link_tables", TRUE, "Successfully linked", << >>, l)
    /\ UNCHANGED << tables, model, handles, last_update, catalog >>

\* A variant of link_tables for which a link that is already in the graph is
\* a successful no-op.
link_tables_idempotent(l) ==
    /\ IF l \in LinkSet(links)
       THEN /\ ReturnedNaming("link_tables", TRUE, "Successfully linked",
                              << "graph.link" >>, l)
            /\ UNCHANGED links
       ELSE IF CanLink(tables, links, l)
       THEN /\ Len(links) < MaxLinks
            /\ links' = Append(links, l)
            /\ ReturnedNaming("link_tables", TRUE, "Successfully linked",
                              << "graph.link" >>, l)
       ELSE /\ ReturnedNaming("link_tables", FALSE, "Failed to link",
                              << "graph.link" >>, l)
            /\ UNCHANGED links
    /\ UNCHANGED << tables, model, handles, last_update, catalog >>

\* tools/graph_tools.py link_tables(source_table, foreign_key, destination_table)
link_tables(l) ==
    /\ IF CanLink(tables, links, l)
       THEN /\ Len(links) < MaxLinks
            /\ links' = Append(links, l)
            /\ ReturnedNaming("link_tables", TRUE, "Successfully linked",
                              << "graph.link" >>, l)
       ELSE /\ ReturnedNaming("link_tables", FALSE, "Failed to link",
                              << "graph.link" >>, l)
            /\ UNCHANGED links
    /\ UNCHANGED << tables, model, handles, last_update, catalog >>

\* A variant of unlink_tables that matches a link by its two tables alone and
\* removes every link between them, whatever its foreign key.
unlink_tables_by_endpoints(l) ==
    LET Same(x) == /\ x.source_table = l.source_table
                   /\ x.destination_table = l.destination_table
        Keep(x) == ~Same(x)
    IN  /\ IF \E i \in DOMAIN links : Same(links[i])
           THEN /\ links' = SelectSeq(links, Keep)
                /\ ReturnedNaming("unlink_tables", TRUE, "Successfully unlinked",
                                  << "graph.unlink" >>, l)
           ELSE /\ ReturnedNaming("unlink_tables", FALSE, "Failed to unlink",
                                  << "graph.unlink" >>, l)
                /\ UNCHANGED links
        /\ UNCHANGED << tables, model, handles, last_update, catalog >>

\* A variant of unlink_tables that reports success without changing the graph.
unlink_tables_reporting_only(l) ==
    /\ IF CanUnlink(links, l)
       THEN ReturnedNaming("unlink_tables", TRUE, "Successfully unlinked",
                           << >>, l)
       ELSE ReturnedNaming("unlink_tables", FALSE, "Failed to unlink",
                           << "graph.unlink" >>, l)
    /\ UNCHANGED << tables, links, model, handles, last_update, catalog >>

\* tools/graph_tools.py unlink_tables(source_table, foreign_key, destination_table)
unlink_tables(l) ==
    /\ IF CanUnlink(links, l)
       THEN /\ links' = UnlinkLinks(links, l)
            /\ ReturnedNaming("unlink_tables", TRUE, "Successfully unlinked",
                              << "graph.unlink" >>, l)
       ELSE /\ ReturnedNaming("unlink_tables", FALSE, "Failed to unlink",
                              << "graph.unlink" >>, l)
            /\ UNCHANGED links
    /\ UNCHANGED << tables, model, handles, last_update, catalog >>

\* tools/graph_tools.py infer_links()
infer_links ==
    /\ Len(InferLinks(tables, links)) <= MaxLinks
    /\ links' = InferLinks(tables, links)
    /\ Returned("infer_links", TRUE, "Link inference completed",
                << "graph.infer_links" >>)
    /\ UNCHANGED << tables, model, handles, last_update, catalog >>

\* A variant of finalize_graph that builds the handle without validating.
finalize_graph_unvalidated(ctor_ok) ==
    /\ IF ~ctor_ok
       THEN /\ Returned("finalize_graph", FALSE,
                        "Failed to spin up KumoRFM model", << "KumoRFM" >>)
            /\ UNCHANGED << model, handles >>
       ELSE /\ handles < MaxHandles
            /\ handles' = handles + 1
            /\ model' = handles + 1
            /\ Returned("finalize_graph", TRUE,
                        "Successfully spun up KumoRFM model", << "KumoRFM" >>)
    /\ UNCHANGED << tables, links, last_update, catalog >>

\* The failure finalize_graph returns when graph.validate() raises; the
\* message carries the error of the validation.
ValidationFailed ==
    /\ result' = [Result("finalize_graph", FALSE, "returned",
                         "Encountered error while validating graph",
                         << "graph.validate" >>)
                     EXCEPT !.data = Violations(tables, links)]
    /\ UNCHANGED session_vars

\* A variant of finalize_graph whose validation drops the links it finds
\* invalid before it reports them.
finalize_graph_repairing(ctor_ok) ==
    /\ IF ~Validate(tables, links)
       THEN /\ ValidationFailed
            /\ links' = LET Valid(l) == LinkValid(tables, l)
                        IN  SelectSeq(links, Valid)
            /\ UNCHANGED << model, handles >>
       ELSE IF ~ctor_ok
       THEN /\ Returned("finalize_graph", FALSE,
                        "Failed to spin up KumoRFM model",
                        << "graph.validate", "KumoRFM" >>)
            /\ UNCHANGED << links, model, handles >>
       ELSE /\ handles < MaxHandles
            /\ handles' = handles + 1
            /\ model' = handles + 1
            /\ Returned("finalize_graph", TRUE,
                        "Successfully spun up KumoRFM model",
                        << "graph.validate", "KumoRFM" >>)
            /\ UNCHANGED links
    /\ UNCHANGED << tables, last_update, catalog >>

\* server.py finalize_graph(), with the outcome of rfm.KumoRFM(graph) as input.
finalize_graph(ctor_ok) ==
    /\ IF ~Validate(tables, links)
       THEN /\ ValidationFailed
            /\ UNCHANGED << model, handles >>
       ELSE IF ~ctor_ok
       THEN /\ Returned("finalize_graph", FALSE,
                        "Failed to spin up KumoRFM model",
                        << "graph.validate", "KumoRFM" >>)
            /\ UNCHANGED << model, handles >>
       ELSE /\ handles < MaxHandles
            /\ handles' = handles + 1
            /\ model' = handles + 1
            /\ Returned("finalize_graph", TRUE,
                        "Successfully spun up KumoRFM model",
                        << "graph.validate", "KumoRFM" >>)
    /\ UNCHANGED << tables, links, last_update, catalog >>

\* A variant of get_session_status that initializes the session it retrieves
\* when that session is not initialized.
get_session_status_initializing ==
    /\ result' = Result("get_session_status", TRUE, "returned",
                        "Session status retrieved successfully",
                        IF session_data.initialized \/ env_api_key = None
                        THEN << >> ELSE << "kumo.init" >>)
    /\ IF session_data.initialized \/ env_api_key = None
       THEN UNCHANGED << session_data, auth_calls, authenticated >>
       ELSE /\ auth_calls < MaxAuthCalls
            /\ auth_calls' = auth_calls + 1
            /\ authenticated' = TRUE
            /\ session_data' = [session_data EXCEPT !.initialized = TRUE]
    /\ UNCHANGED << env_api_key, env_api_url, retrievals, retrieved, threads >>
    /\ UNCHANGED << tables, links, model, handles, last_update, catalog >>

\* The table names of the graph, in the order of graph.tables.
NameList(ts) == [i \in DOMAIN ts |-> ts[i].name]

\* status_data of get_session_status.
StatusData(initialized, ts, ls, m) ==
    [initialized |-> initialized,
     table_names |-> NameList(ts),
     num_links |-> Len(ls),
     is_rfm_model_ready |-> m # NoModel]

\* A variant of get_session_status that reports the model as ready once a
\* handle has been built, whatever became of it.
get_session_status_remembering ==
    /\ ReturnedData("get_session_status", TRUE,
                    "Session status retrieved successfully", None,
                    StatusData(session_data.initialized, tables, links, handles))
    /\ UNCHANGED << tables, links, model, handles, last_update, catalog >>

\* tools/session_tools.py get_session_status()
get_session_status ==
    /\ ReturnedData("get_session_status", TRUE,
                    "Session status retrieved successfully", None,
                    StatusData(session_data.initialized, tables, links, model))
    /\ UNCHANGED << tables, links, model, handles, last_update, catalog >>

\* A variant of clear_session that empties the graph and keeps the model.
clear_session_keeping_model ==
    /\ tables' = << >>
    /\ links' = << >>
    /\ Returned("clear_session", TRUE, "Session cleared successfully", << >>)
    /\ UNCHANGED << model, handles, last_update, catalog >>

\* tools/session_tools.py clear_session()
clear_session ==
    /\ tables' = << >>
    /\ links' = << >>
    /\ model' = NoModel
    /\ Returned("clear_session", TRUE, "Session cleared successfully", << >>)
    /\ UNCHANGED << handles, last_update, catalog >>


\* ------------------------------------------------ predictive-query tools
AnchorTimes == {None, "entity", "2019-01-01", "next tuesday-ish"}

\* pd.Timestamp(anchor_time): a ValueError unless the string is a date.
ParsesAsTimestamp(anchor_time) == anchor_time \in {"2019-01-01"}

\* tools/model_tools.py validate_query(query), with the outcome of
\* model._parse_query as input.
validate_query(parse_ok) ==
    /\ IF model = NoModel
       THEN Returned("validate_query", FALSE, "No model available", << >>)
       ELSE IF parse_ok
       THEN Returned("validate_query", TRUE, "Query validated successfully",
                     << "model._parse_query" >>)
       ELSE Returned("validate_query", FALSE, "Query validation failed",
                     << "model._parse_query" >>)
    /\ UNCHANGED << tables, links, model, handles, last_update, catalog >>

\* A variant of RunQuery without the check of the handle.
RunQuery_unchecked(op, call, anchor_time, call_ok) ==
    /\ IF anchor_time \notin {None, "entity"}
          /\ ~ParsesAsTimestamp(anchor_time)
       THEN Returned(op, FALSE, "Invalid anchor_time format", << >>)
       ELSE IF call_ok /\ model # NoModel
       THEN Returned(op, TRUE, "completed successfully", << call >>)
       ELSE Returned(op, FALSE, "failed", << call >>)
    /\ UNCHANGED << tables, links, model, handles, last_update, catalog >>

\* The body shared by predict and evaluate of tools/model_tools.py.
RunQuery(op, call, anchor_time, call_ok) ==
    /\ IF model = NoModel
       THEN Returned(op, FALSE, "No model available", << >>)
       ELSE IF anchor_time \notin {None, "entity"}
               /\ ~ParsesAsTimestamp(anchor_time)
       THEN Returned(op, FALSE, "Invalid anchor_time format", << >>)
       ELSE IF call_ok
       THEN Returned(op, TRUE, "completed successfully", << call >>)
       ELSE Returned(op, FALSE, "failed", << call >>)
    /\ UNCHANGED << tables, links, model, handles, last_update, catalog >>

\* tools/model_tools.py predict(query, anchor_time, ...)
predict(anchor_time, call_ok) ==
    RunQuery("predict", "model.predict", anchor_time, call_ok)

\* tools/model_tools.py evaluate(query, anchor_time, ...)
evaluate(anchor_time, call_ok) ==
    RunQuery("evaluate", "model.evaluate", anchor_time, call_ok)

\* The body shared by predict and evaluate of tools/model.py: the handle is
\* read without a check and the call is made in a worker thread; every
\* exception of the call, the missing handle's included, becomes a ToolError.
RunQueryOffloaded(op, call, call_ok) ==
    /\ IF model = NoModel
       THEN Raised(op, "ToolError: failed", << >>)
       ELSE IF call_ok
       THEN Returned(op, TRUE, "response", << call >>)
       ELSE Raised(op, "ToolError: failed", << call >>)
    /\ UNCHANGED << tables, links, model, handles, last_update, catalog >>

\* tools/model.py predict(query, anchor_time, ...)
predict_response(call_ok) ==
    RunQueryOffloaded("predict", "model.predict", call_ok)

\* tools/model.py evaluate(query, metrics, anchor_time, ...)
evaluate_response(call_ok) ==
    RunQueryOffloaded("evaluate", "model.evaluate", call_ok)

\* to_dtype(table._data[column]): the data type of a column of the frame.
Dtype(col) ==
    CASE col = "USER_ID" -> "int"
      [] col = "STORE_ID" -> "int"
      [] col = "AGE"     -> "float"
      [] col = "TIME"    -> "date"
      [] OTHER           -> "string"

\* A variant of get_graph_metadata that lists the columns of the table
\* object only, without the branch for columns left in the frame alone.
get_graph_metadata_table_columns(ts, ls) ==
    [tables |->
        [i \in DOMAIN ts |->
            LET kept == { c \in FileColumns(ts[i].path) : HasColumn(ts[i], c) }
            IN  [path |-> ts[i].path,
                 name |-> ts[i].name,
                 dtypes |-> [c \in kept |-> Dtype(c)],
                 stypes |-> [c \in kept |-> ts[i].stypes[c]],
                 primary_key |-> ts[i].primary_key,
                 time_column |-> ts[i].time_column]],
     links |-> ls]

\* tools/graph_tools.py get_graph_metadata(): every column of the frame, with
\* the semantic type None for a column that is not in the table object.
get_graph_metadata(ts, ls) ==
    [tables |->
        [i \in DOMAIN ts |->
            [path |-> ts[i].path,
             name |-> ts[i].name,
             dtypes |-> [c \in FileColumns(ts[i].path) |-> Dtype(c)],
             stypes |-> [c \in FileColumns(ts[i].path) |->
                            IF HasColumn(ts[i], c) THEN ts[i].stypes[c]
                            ELSE None],
             primary_key |-> ts[i].primary_key,
             time_column |-> ts[i].time_column]],
     links |-> ls]

\* ------------------------------------------------------------ read tools
\* tools/graph_tools.py inspect_graph_metadata()
inspect_graph_metadata ==
    /\ ReturnedData("inspect_graph_metadata", TRUE, "graph metadata", None,
                    get_graph_metadata(tables, links))
    /\ UNCHANGED << tables, links, model, handles, last_update, catalog >>

\* The per-table summary of inspect_graph and list_tables, keyed by name: the
\* columns of the frame, the primary key and the time column.
TableSummaries(ts) ==
    [n \in TableNames(ts) |->
        [columns |-> FileColumns(GetTable(ts, n).path),
         primary_key |-> GetTable(ts, n).primary_key,
         time_column |-> GetTable(ts, n).time_column]]

\* tools/graph_tools.py inspect_graph()
inspect_graph ==
    /\ ReturnedData("inspect_graph", TRUE,
                    "Graph structure retrieved successfully", None,
                    [tables |-> TableSummaries(tables), links |-> links])
    /\ UNCHANGED << tables, links, model, handles, last_update, catalog >>

\* tools/table_tools.py list_tables()
list_tables ==
    /\ ReturnedData("list_tables", TRUE, "Listed tables successfully", None,
                    TableSummaries(tables))
    /\ UNCHANGED << tables, links, model, handles, last_update, catalog >>

\* tools/table_tools.py inspect_table(name): session.graph[name] raises for a
\* name that is not a table.
inspect_table(name) ==
    /\ IF HasTable(tables, name)
       THEN ReturnedData("inspect_table", TRUE, "inspected successfully", name,
                [name |-> name,
                 num_columns |-> Cardinality(FileColumns(GetTable(tables, name).path)),
                 primary_key |-> GetTable(tables, name).primary_key,
                 time_column |-> GetTable(tables, name).time_column])
       ELSE ReturnedData("inspect_table", FALSE, "Failed to inspect table",
                         name, None)
    /\ UNCHANGED << tables, links, model, handles, last_update, catalog >>

\* tools/metadata_tools.py inspect_metadata(): the columns of the table
\* object with their semantic types, the path the catalog holds for the
\* table ('' without one) and an empty string for a primary key that is not
\* set.
GraphMetadata(ts, ls, c) ==
    [tables |->
        [i \in DOMAIN ts |->
            LET kept == { col \in DOMAIN ts[i].stypes : HasColumn(ts[i], col) }
            IN  [name |-> ts[i].name,
                 path |-> CatalogPath(c, ts[i].name),
                 primary_key |-> IF ts[i].primary_key = None
                                 THEN "" ELSE ts[i].primary_key,
                 time_column |-> ts[i].time_column,
                 stypes |-> [col \in kept |-> ts[i].stypes[col]]]],
     links |-> ls]

inspect_metadata ==
    /\ ReturnedData("inspect_metadata", TRUE, "Metadata retrieved successfully",
                    None, GraphMetadata(tables, links, catalog))
    /\ UNCHANGED << tables, links, model, handles, last_update, catalog >>

\* ------------------------------------------------ update_graph_metadata
\* The running graph of a batch: tables, links and whether an item has raised.
Graph(ts, ls, ok) == [tables |-> ts, links |-> ls, ok |-> ok]

Failed(g) == [g EXCEPT !.ok = FALSE]

SetStype(ts, name, col, stype) ==
    ReplaceTable(ts, name,
        [GetTable(ts, name) EXCEPT !.stypes[col] = stype])

\* One (column_name, stype) entry of a table update.
StypeStep(g, name, col, stype) ==
    IF ~HasTable(g.tables, name) THEN Failed(g)
    ELSE LET t == GetTable(g.tables, name)
             added == IF HasColumn(t, col) THEN g.tables
                      ELSE SetStype(g.tables, name, col, InferredStype(col))
         IN  IF col \notin DOMAIN t.stypes THEN Failed(g)
             ELSE IF stype = None
             THEN [g EXCEPT !.tables = SetStype(added, name, col, None)]
             ELSE IF stype \notin SupportedStypes(col)
             THEN Failed([g EXCEPT !.tables = added])
             ELSE [g EXCEPT !.tables = SetStype(added, name, col, stype)]

RECURSIVE ApplyStypes(_, _, _)
ApplyStypes(g, name, items) ==
    IF ~g.ok \/ items = << >> THEN g
    ELSE ApplyStypes(StypeStep(g, name, Head(items).col, Head(items).stype),
                     name, Tail(items))

\* graph[table_name].primary_key = value
PrimaryKeyStep(g, name, value) ==
    IF ~HasTable(g.tables, name) THEN Failed(g)
    ELSE IF value # None /\ ~HasColumn(GetTable(g.tables, name), value)
    THEN Failed(g)
    ELSE [g EXCEPT !.tables = ReplaceTable(g.tables, name,
              [GetTable(g.tables, name) EXCEPT !.primary_key = value])]

\* graph[table_name].time_column = value
TimeColumnStep(g, name, value) ==
    IF ~HasTable(g.tables, name) THEN Failed(g)
    ELSE IF value # None /\ ~HasColumn(GetTable(g.tables, name), value)
    THEN Failed(g)
    ELSE [g EXCEPT !.tables = ReplaceTable(g.tables, name,
              [GetTable(g.tables, name) EXCEPT !.time_column = value])]

\* A variant of UpdateTable that clears the primary key and the time column
\* of the table before it assigns the values of the entry.
UpdateTable_clearing_first(g, item) ==
    LET Cleared(h, field) ==
            IF HasTable(h.tables, item.name)
            THEN [h EXCEPT !.tables = ReplaceTable(h.tables, item.name,
                      [GetTable(h.tables, item.name) EXCEPT ![field] = None])]
            ELSE h
        g1 == ApplyStypes(g, item.name, item.stypes)
        g2 == IF g1.ok /\ item.has_primary_key
              THEN PrimaryKeyStep(Cleared(g1, "primary_key"), item.name,
                                  item.primary_key)
              ELSE g1
        g3 == IF g2.ok /\ item.has_time_column
              THEN TimeColumnStep(Cleared(g2, "time_column"), item.name,
                                  item.time_column)
              ELSE g2
    IN  g3

\* A variant of UpdateTable that assigns primary_key and time_column whether
\* or not the entry sets them, an omitted field arriving as None.
UpdateTable_unset_as_none(g, item) ==
    LET g1 == ApplyStypes(g, item.name, item.stypes)
        g2 == IF g1.ok
              THEN PrimaryKeyStep(g1, item.name,
                       IF item.has_primary_key THEN item.primary_key ELSE None)
              ELSE g1
        g3 == IF g2.ok
              THEN TimeColumnStep(g2, item.name,
                       IF item.has_time_column THEN item.time_column ELSE None)
              ELSE g2
    IN  g3

\* One entry of tables_to_update.
UpdateTable(g, item) ==
    LET g1 == ApplyStypes(g, item.name, item.stypes)
        g2 == IF g1.ok /\ item.has_primary_key
              THEN PrimaryKeyStep(g1, item.name, item.primary_key) ELSE g1
        g3 == IF g2.ok /\ item.has_time_column
              THEN TimeColumnStep(g2, item.name, item.time_column) ELSE g2
    IN  g3

RECURSIVE UpdateTables(_, _)
UpdateTables(g, items) ==
    IF ~g.ok \/ items = << >> THEN g
    ELSE UpdateTables(UpdateTable(g, Head(items)), Tail(items))

RECURSIVE RemoveLinks(_, _)
RemoveLinks(g, items) ==
    IF ~g.ok \/ items = << >> THEN g
    ELSE IF ~CanUnlink(g.links, Head(items)) THEN Failed(g)
    ELSE RemoveLinks([g EXCEPT !.links = UnlinkLinks(g.links, Head(items))],
                     Tail(items))

RECURSIVE AddLinks(_, _)
AddLinks(g, items) ==
    IF ~g.ok \/ items = << >> THEN g
    ELSE IF ~CanLink(g.tables, g.links, Head(items)) THEN Failed(g)
    ELSE AddLinks([g EXCEPT !.links = Append(g.links, Head(items))],
                  Tail(items))

\* The three loops of update_graph_metadata, in the order of the code.
ApplyUpdate(ts, ls, update) ==
    AddLinks(
        RemoveLinks(
            UpdateTables(Graph(ts, ls, TRUE), update.tables_to_update),
            update.links_to_remove),
        update.links_to_add)

\* A variant of update_graph_metadata that resets the model only when the
\* update went through and changed the graph.
update_graph_metadata_resetting_on_change(update) ==
    LET g == ApplyUpdate(tables, links, update)
    IN  /\ Len(g.links) <= MaxLinks
        /\ model' = IF g.ok /\ << g.tables, g.links >> # << tables, links >>
                    THEN NoModel ELSE model
        /\ tables' = g.tables
        /\ links' = g.links
        /\ IF g.ok
           THEN Returned("update_graph_metadata", TRUE, "graph metadata",
                         << >>)
           ELSE Raised("update_graph_metadata", "ToolError", << >>)
        /\ UNCHANGED << handles, catalog >>

\* tools/graph_tools.py update_graph_metadata(update).  The handler reads the
\* keys tables_to_update, links_to_remove and links_to_add of the update.
update_graph_metadata(update) ==
    LET g == ApplyUpdate(tables, links, update)
    IN  /\ Len(g.links) <= MaxLinks
        /\ model' = NoModel
        /\ tables' = g.tables
        /\ links' = g.links
        /\ IF g.ok
           THEN Returned("update_graph_metadata", TRUE, "graph metadata",
                         << >>)
           ELSE Raised("update_graph_metadata", "ToolError", << >>)
        /\ UNCHANGED << handles, catalog >>


\* ------------------------------------------------------ update_metadata
FileOf(path) == CHOOSE f \in Files : f.path = path

KnownPath(path) == \E f \in Files : f.path = path

\* utils.load_dataframe(path) succeeds.
CanLoad(path) ==
    /\ KnownPath(path)
    /\ FileOf(path).ext \in {"csv", "parquet"}
    /\ FileOf(path).exists

\* The table update_metadata builds for one TableMetadata entry: inferred
\* metadata, unspecified columns removed, the given stypes set, then the
\* primary key and time column when the entry names one.
BuiltTable(tbl, infer) ==
    LET t0 == InferMetadata(tbl.path, tbl.name, infer)
        t1 == [t0 EXCEPT !.stypes =
                  [c \in DOMAIN t0.stypes |->
                      IF c \in DOMAIN tbl.stypes THEN tbl.stypes[c] ELSE None]]
        t2 == IF tbl.primary_key \notin {"", None}
              THEN [t1 EXCEPT !.primary_key = tbl.primary_key] ELSE t1
        t3 == IF tbl.time_column \notin {"", None}
              THEN [t2 EXCEPT !.time_column = tbl.time_column] ELSE t2
    IN  t3

CanBuildTable(tbl) ==
    /\ DOMAIN tbl.stypes \subseteq FileColumns(tbl.path)
    /\ \A c \in DOMAIN tbl.stypes : tbl.stypes[c] \in SupportedStypes(c)
    /\ tbl.primary_key \notin {"", None} => tbl.primary_key \in DOMAIN tbl.stypes
    /\ tbl.time_column \notin {"", None} => tbl.time_column \in DOMAIN tbl.stypes

\* The message update_metadata returns for the first table that fails, or
\* None when every table of the list was built and added.
RECURSIVE BuildTables(_, _, _)
BuildTables(g, tbls, infer) ==
    IF ~g.ok \/ tbls = << >> THEN g
    ELSE LET tbl == Head(tbls)
         IN  IF ~CanLoad(tbl.path) \/ ~CanBuildTable(tbl)
                \/ ~CanAddTable(g.tables, tbl.name)
             THEN Failed(g)
             ELSE BuildTables(
                      [g EXCEPT !.tables = Append(g.tables, BuiltTable(tbl, infer))],
                      Tail(tbls), infer)

\* A variant of update_metadata whose replace mode empties the table list
\* and keeps the links of the graph it replaces.
update_metadata_keeping_links(metadata, infer) ==
    LET g0 == Graph(<< >>, links, TRUE)
        g1 == BuildTables(g0, metadata.tables, infer)
        g2 == AddLinks(g1, metadata.links)
        added == [tables_added |-> Len(g1.tables) - Len(g0.tables),
                  links_added |-> Len(g2.links) - Len(g0.links)]
    IN  /\ Len(g2.links) <= MaxLinks
        /\ model' = NoModel
        /\ tables' = g2.tables
        /\ links' = g2.links
        /\ catalog' = CatalogOf(catalog, g1.tables)
        /\ IF ~g1.ok
           THEN ReturnedData("update_metadata", FALSE,
                             "Failed to load or register table", metadata, None)
           ELSE IF ~g2.ok
           THEN ReturnedData("update_metadata", FALSE, "Failed to create links",
                             metadata, None)
           ELSE ReturnedData("update_metadata", TRUE,
                             "Metadata applied (replace mode)", metadata, added)
        /\ UNCHANGED << handles, last_update >>

\* A variant of update_metadata in merge mode: the tables and links given
\* are added to the graph the session holds.
update_metadata_merging(metadata, infer) ==
    LET g0 == Graph(tables, links, TRUE)
        g1 == BuildTables(g0, metadata.tables, infer)
        g2 == AddLinks(g1, metadata.links)
        added == [tables_added |-> Len(g1.tables) - Len(g0.tables),
                  links_added |-> Len(g2.links) - Len(g0.links)]
    IN  /\ Len(g2.links) <= MaxLinks
        /\ model' = NoModel
        /\ tables' = g2.tables
        /\ links' = g2.links
        /\ catalog' = CatalogOf(catalog, g1.tables)
        /\ IF ~g1.ok
           THEN ReturnedData("update_metadata", FALSE,
                             "Failed to load or register table", metadata, None)
           ELSE IF ~g2.ok
           THEN ReturnedData("update_metadata", FALSE, "Failed to create links",
                             metadata, None)
           ELSE ReturnedData("update_metadata", TRUE,
                             "Metadata applied (replace mode)", metadata, added)
        /\ UNCHANGED << handles, last_update >>

\* tools/metadata_tools.py update_metadata(metadata): replace mode.  The counts
\* reported on success are those of the loops that ran to their end.
update_metadata(metadata, infer) ==
    LET g0 == Graph(<< >>, << >>, TRUE)
        g1 == BuildTables(g0, metadata.tables, infer)
        g2 == AddLinks(g1, metadata.links)
        added == [tables_added |-> Len(g1.tables) - Len(g0.tables),
                  links_added |-> Len(g2.links) - Len(g0.links)]
    IN  /\ Len(g2.links) <= MaxLinks
        /\ model' = NoModel
        /\ tables' = g2.tables
        /\ links' = g2.links
        /\ catalog' = CatalogOf(catalog, g1.tables)
        /\ IF ~g1.ok
           THEN ReturnedData("update_metadata", FALSE,
                             "Failed to load or register table", metadata, None)
           ELSE IF ~g2.ok
           THEN ReturnedData("update_metadata", FALSE, "Failed to create links",
                             metadata, None)
           ELSE ReturnedData("update_metadata", TRUE,
                             "Metadata applied (replace mode)", metadata, added)
        /\ UNCHANGED << handles, last_update >>

\* ------------------------------------------------------------ inputs
AddInputs ==
    { [file |-> FileOf("users.csv"),      name |-> "USERS"],
      [file |-> FileOf("orders.parquet"), name |-> "ORDERS"],
      [file |-> FileOf("gone.csv"),       name |-> "ORDERS"],
      [file |-> FileOf("notes.txt"),      name |-> "USERS"] }

NameInputs == {"USERS", "ORDERS", "GHOST"}

LinkInputs ==
    { Link("ORDERS", "USER_ID", "USERS"),
      Link("USERS", "USER_ID", "ORDERS"),
      Link("ORDERS", "NOPE", "USERS"),
      Link("ORDERS", "USER_ID", "GHOST") }

TableUpdate(name, stypes, has_pk, pk, has_tc, tc) ==
    [name |-> name, stypes |-> stypes,
     has_primary_key |-> has_pk, primary_key |-> pk,
     has_time_column |-> has_tc, time_column |-> tc]

StypeEntry(col, stype) == [col |-> col, stype |-> stype]

TableUpdateInputs ==
    { TableUpdate("USERS", << StypeEntry("AGE", None) >>, FALSE, None, FALSE, None),
      TableUpdate("USERS", << StypeEntry("AGE", "categorical") >>,
                  FALSE, None, FALSE, None),
      TableUpdate("USERS", << StypeEntry("USER_ID", "timestamp") >>,
                  FALSE, None, FALSE, None),
      TableUpdate("USERS", << >>, TRUE, None, FALSE, None),
      TableUpdate("USERS", << >>, TRUE, "USER_ID", FALSE, None),
      TableUpdate("USERS", << StypeEntry("AGE", None) >>, TRUE, "NOPE", FALSE, None),
      TableUpdate("ORDERS", << >>, TRUE, "USER_ID", FALSE, None),
      TableUpdate("ORDERS", << >>, FALSE, None, TRUE, "TIME"),
      TableUpdate("ORDERS", << StypeEntry("USER_ID", None) >>,
                  FALSE, None, FALSE, None),
      TableUpdate("GHOST", << >>, TRUE, None, FALSE, None) }

Update(adds, updates, unlinks, newlinks, removes) ==
    [tables_to_add |-> adds, tables_to_update |-> updates,
     links_to_remove |-> unlinks, links_to_add |-> newlinks,
     tables_to_remove |-> removes]

\* Updates of one item.
SingleUpdates ==
    {Update(<< >>, << >>, << >>, << >>, << >>)}
    \cup { Update(<< a >>, << >>, << >>, << >>, << >>) : a \in AddInputs }
    \cup { Update(<< >>, << u >>, << >>, << >>, << >>) : u \in TableUpdateInputs }
    \cup { Update(<< >>, << >>, << l >>, << >>, << >>) : l \in LinkInputs }
    \cup { Update(<< >>, << >>, << >>, << l >>, << >>) : l \in LinkInputs }
    \cup { Update(<< >>, << >>, << >>, << >>, << n >>) : n \in NameInputs }

MetaTable(name, path, stypes, pk, tc) ==
    [name |-> name, path |-> path, stypes |-> stypes,
     primary_key |-> pk, time_column |-> tc]

MetaUsers ==
    MetaTable("USERS", "users.csv",
              ("USER_ID" :> "ID") @@ ("AGE" :> "numerical"), "USER_ID", None)

MetaOrders ==
    MetaTable("ORDERS", "orders.parquet",
              ("USER_ID" :> "ID") @@ ("TIME" :> "timestamp"), "", "TIME")

MetadataInputs ==
    { [tables |-> << >>, links |-> << >>],
      [tables |-> << MetaUsers >>, links |-> << >>],
      [tables |-> << MetaUsers, MetaOrders >>,
       links |-> << Link("ORDERS", "USER_ID", "USERS") >>],
      [tables |-> << MetaUsers, MetaOrders >>,
       links |-> << Link("ORDERS", "NOPE", "USERS") >>],
      [tables |-> << MetaUsers, MetaUsers >>, links |-> << >>],
      [tables |-> << MetaUsers,
                     MetaTable("ORDERS", "gone.csv", ("USER_ID" :> "ID"), "", None) >>,
       links |-> << >>],
      [tables |-> << MetaTable("USERS", "users.csv", ("NOPE" :> "ID"), "", None) >>,
       links |-> << >>],
      [tables |-> << MetaTable("USERS", "users.csv", ("USER_ID" :> "ID"), "", None) >>,
       links |-> << >>] }

Init ==
    /\ env_api_key \in {None, "test-key"}
    /\ env_api_url \in {None, "http://localhost"}
    /\ session_data = [session_id |-> "default", initialized |-> FALSE,
                       api_url |-> None, api_key |-> None]
    /\ auth_calls = 0
    /\ retrievals = 0
    /\ retrieved = {}
    /\ tables = << >>
    /\ links = << >>
    /\ model = NoModel
    /\ handles = 0
    /\ result = Result("start", TRUE, "returned", "", << >>)
    /\ last_update = NoUpdate
    /\ catalog = NoCatalog
    /\ authenticated = FALSE
    /\ threads = [t \in Threads |-> Idle]

\* The state after the server's startup call of initialize, which either
\* authenticated or failed to.
Started ==
    /\ env_api_key = "test-key"
    /\ env_api_url = None
    /\ \E init_ok \in BOOLEAN :
          /\ session_data = [session_id |-> "default", initialized |-> init_ok,
                             api_url |-> DefaultApiUrl, api_key |-> "test-key"]
          /\ authenticated = init_ok
    /\ threads = [t \in Threads |-> Idle]
    /\ auth_calls = 1
    /\ retrievals = 0
    /\ retrieved = {}
    /\ tables = << >>
    /\ links = << >>
    /\ model = NoModel
    /\ handles = 0
    /\ result = Result("start", TRUE, "returned", "", << >>)
    /\ last_update = NoUpdate

\* The session of session.py: no catalog attribute.
InitGraph == Started /\ catalog = NoCatalog

NextSession ==
    \/ \E init_ok \in BOOLEAN : initialize(init_ok)
    \/ get_session_call
    \/ get_session_status
    \/ clear_session
    \/ \E ctor_ok \in BOOLEAN : finalize_graph(ctor_ok)
    \/ \E parse_ok \in BOOLEAN : validate_query(parse_ok)
    \/ \E call_ok \in BOOLEAN : predict_response(call_ok)

SpecSession == Init /\ [][NextSession]_vars

Next ==
    \/ \E a \in AddInputs, infer \in Inferences : add_table(a.file, a.name, infer)
    \/ \E n \in NameInputs : remove_table(n)
    \/ \E l \in LinkInputs : link_tables(l)
    \/ \E l \in LinkInputs : unlink_tables(l)
    \/ infer_links
    \/ \E u \in SingleUpdates : update_graph_metadata(u) /\ UNCHANGED last_update
    \/ \E m \in MetadataInputs, infer \in Inferences : update_metadata(m, infer)
    \/ \E ctor_ok \in BOOLEAN : finalize_graph(ctor_ok)
    \/ \E parse_ok \in BOOLEAN : validate_query(parse_ok)
    \/ \E at \in AnchorTimes, call_ok \in BOOLEAN : predict(at, call_ok)
    \/ \E at \in AnchorTimes, call_ok \in BOOLEAN : evaluate(at, call_ok)
    \/ \E call_ok \in BOOLEAN : predict_response(call_ok)
    \/ \E call_ok \in BOOLEAN : evaluate_response(call_ok)
    \/ get_session_status
    \/ clear_session

Spec == InitGraph /\ [][Next]_vars

\* Updates of two or three items, in one group or across groups.
PairedUpdates ==
    { Update(<< [file |-> FileOf("users.csv"), name |-> "USERS"],
                [file |-> FileOf("orders.parquet"), name |-> "ORDERS"] >>,
             << >>, << >>, << Link("ORDERS", "USER_ID", "USERS") >>, << >>),
      Update(<< >>, << >>, << >>,
             << Link("ORDERS", "NOPE", "USERS"),
                Link("ORDERS", "USER_ID", "USERS") >>, << >>),
      Update(<< >>, << >>, << >>,
             << Link("ORDERS", "USER_ID", "USERS"),
                Link("ORDERS", "NOPE", "USERS") >>, << >>),
      Update(<< >>,
             << TableUpdate("GHOST", << >>, TRUE, None, FALSE, None),
                TableUpdate("ORDERS", << >>, FALSE, None, TRUE, "TIME") >>,
             << >>, << >>, << >>),
      Update(<< >>,
             << TableUpdate("USERS", << StypeEntry("AGE", None) >>,
                            TRUE, "NOPE", FALSE, None),
                TableUpdate("ORDERS", << >>, TRUE, "USER_ID", FALSE, None) >>,
             << >>, << >>, << >>),
      Update(<< >>, << >>, << Link("ORDERS", "USER_ID", "USERS") >>, << >>,
             << "ORDERS" >>),
      Update(<< >>,
             << TableUpdate("USERS", << >>, TRUE, "USER_ID", FALSE, None) >>,
             << >>, << Link("ORDERS", "USER_ID", "USERS") >>, << >>),
      Update(<< >>, << >>, << Link("ORDERS", "USER_ID", "USERS") >>,
             << Link("ORDERS", "USER_ID", "USERS") >>, << >>),
      Update(<< >>,
             << TableUpdate("USERS", << >>, TRUE, "AGE", FALSE, None),
                TableUpdate("ORDERS", << >>, FALSE, None, TRUE, "TIME") >>,
             << >>, << >>, << >>),
      Update(<< >>,
             << TableUpdate("USERS", << >>, TRUE, "USER_ID", FALSE, None),
                TableUpdate("ORDERS", << >>, FALSE, None, TRUE, "NOPE") >>,
             << >>, << >>, << >>) }

BatchInputs == SingleUpdates \cup PairedUpdates

\* The tools that add tables and update the graph in batches; the update
\* passed to update_graph_metadata is kept in last_update.
NextBatch ==
    \/ \E a \in AddInputs, infer \in Inferences :
           add_table(a.file, a.name, infer)
    \/ \E u \in BatchInputs : update_graph_metadata(u) /\ last_update' = u

SpecBatch == InitGraph /\ [][NextBatch]_vars

\* The tools that read the session, next to the tools that change what they
\* read.
NextRead ==
    \/ \E init_ok \in BOOLEAN : initialize(init_ok)
    \/ \E a \in AddInputs, infer \in Inferences :
           add_table(a.file, a.name, infer)
    \/ \E n \in NameInputs : remove_table(n)
    \/ \E l \in LinkInputs : link_tables(l)
    \/ \E l \in LinkInputs : unlink_tables(l)
    \/ \E u \in TableUpdateInputs :
           /\ update_graph_metadata(Update(<< >>, << u >>, << >>, << >>, << >>))
           /\ UNCHANGED last_update
    \/ \E ctor_ok \in BOOLEAN : finalize_graph(ctor_ok)
    \/ clear_session
    \/ get_session_status
    \/ inspect_graph_metadata
    \/ inspect_graph
    \/ list_tables
    \/ \E n \in NameInputs : inspect_table(n)
    \/ inspect_metadata

SpecRead == InitGraph /\ [][NextRead]_vars

\* The scenario of test_graph_metadata: the tables USERS, ORDERS and STORES,
\* the links from ORDERS to the other two, and the four updates of the test.
ScenarioTables ==
    { [file |-> FileOf("users.csv"),      name |-> "USERS"],
      [file |-> FileOf("ORDERS.parquet"), name |-> "ORDERS"],
      [file |-> FileOf("STORES.csv"),     name |-> "STORES"] }

ScenarioLinks ==
    << Link("ORDERS", "USER_ID", "USERS"), Link("ORDERS", "STORE_ID", "STORES") >>

ScenarioAdds ==
    Update(<< [file |-> FileOf("users.csv"),      name |-> "USERS"],
              [file |-> FileOf("ORDERS.parquet"), name |-> "ORDERS"],
              [file |-> FileOf("STORES.csv"),     name |-> "STORES"] >>,
           << >>, << >>, << >>, << >>)

ScenarioKeys ==
    Update(<< >>,
           << TableUpdate("USERS", << >>, TRUE, "USER_ID", FALSE, None),
              TableUpdate("ORDERS", << >>, FALSE, None, TRUE, "TIME"),
              TableUpdate("STORES", << >>, TRUE, "STORE_ID", FALSE, None) >>,
           << >>, << >>, << >>)

ScenarioLinking == Update(<< >>, << >>, << >>, ScenarioLinks, << >>)

ScenarioFinal ==
    Update(<< >>, << >>, << Link("ORDERS", "USER_ID", "USERS") >>, << >>,
           << "STORES" >>)

NextScenario ==
    \/ \E a \in ScenarioTables, infer \in Inferences :
           add_table(a.file, a.name, infer)
    \/ \E i \in DOMAIN ScenarioLinks : link_tables(ScenarioLinks[i])
    \/ \E u \in {ScenarioAdds, ScenarioKeys, ScenarioLinking, ScenarioFinal} :
           update_graph_metadata(u) /\ last_update' = u

SpecScenario == InitGraph /\ [][NextScenario]_vars

\* Two tables whose links can form cycles: an employee's manager is an
\* employee, an employee belongs to a department, a department's head is an
\* employee.
CycleTables ==
    { [file |-> FileOf("employees.csv"),   name |-> "EMPLOYEES"],
      [file |-> FileOf("departments.csv"), name |-> "DEPARTMENTS"] }

CycleLinks ==
    { Link("EMPLOYEES", "MANAGER_ID", "EMPLOYEES"),
      Link("EMPLOYEES", "DEPT_ID", "DEPARTMENTS"),
      Link("DEPARTMENTS", "HEAD_ID", "EMPLOYEES"),
      Link("EMPLOYEES", "EMP_ID", "EMPLOYEES") }

NextCycles ==
    \/ \E a \in CycleTables, infer \in Inferences :
           add_table(a.file, a.name, infer)
    \/ \E l \in CycleLinks : link_tables(l)
    \/ \E l \in CycleLinks : unlink_tables(l)
    \/ \E ctor_ok \in BOOLEAN : finalize_graph(ctor_ok)

SpecCycles == InitGraph /\ [][NextCycles]_vars

\* ------------------------------------------------------ calls in steps
\* What infer_metadata detects is the same each time a file is loaded: the
\* key and the time column the file has.
Detected == [pk |-> TRUE, tc |-> TRUE]

Others == << tables, links, model, handles, last_update, catalog >>

\* SessionState.initialize up to the call of kumo.init: the credentials are
\* read and stored and session.initialized is set to True.
initialize_begin(t) ==
    /\ threads[t] = Idle
    /\ auth_calls < MaxAuthCalls
    /\ LET api_url == IF env_api_url = None THEN DefaultApiUrl ELSE env_api_url
       IN  IF env_api_key # None
           THEN /\ session_data' =
                      [session_data EXCEPT !.api_key = env_api_key,
                                           !.api_url = api_url,
                                           !.initialized = TRUE]
                /\ threads' = [threads EXCEPT ![t] = [at |-> "kumo.init"]]
                /\ UNCHANGED result
           ELSE /\ session_data' = [session_data EXCEPT !.initialized = FALSE]
                /\ result' = Result("initialize", FALSE, "returned",
                                    "KUMO_API_KEY not set", << >>)
                /\ UNCHANGED threads
    /\ UNCHANGED << env_api_key, env_api_url, auth_calls, retrievals,
                    retrieved, authenticated >>
    /\ UNCHANGED Others

\* kumo.init returns or raises; the except clause sets the flag back.
initialize_end(t, init_ok) ==
    /\ threads[t] = [at |-> "kumo.init"]
    /\ auth_calls' = auth_calls + 1
    /\ authenticated' = init_ok
    /\ session_data' = IF init_ok THEN session_data
                       ELSE [session_data EXCEPT !.initialized = FALSE]
    /\ result' = Result("initialize", init_ok, "returned",
                        IF init_ok THEN "auto-initialized"
                        ELSE "Auto-initialization failed",
                        << "kumo.init" >>)
    /\ threads' = [threads EXCEPT ![t] = Idle]
    /\ UNCHANGED << env_api_key, env_api_url, retrievals, retrieved >>
    /\ UNCHANGED Others

\* get_session_status, first statement: the call retrieves the session.
\* fresh records whether the session it reached was not yet initialized.
status_enter(t) ==
    /\ threads[t] = Idle
    /\ retrievals < MaxRetrievals
    /\ retrievals' = retrievals + 1
    /\ retrieved' = retrieved \cup {get_session}
    /\ threads' = [threads EXCEPT ![t] =
                      [at |-> "status", session |-> get_session,
                       fresh |-> ~session_data.initialized]]
    /\ UNCHANGED << env_api_key, env_api_url, session_data, auth_calls,
                    authenticated, result >>
    /\ UNCHANGED Others

\* get_session_status builds status_data from the session it holds.
status_read(t) ==
    /\ threads[t].at = "status"
    /\ threads' = [threads EXCEPT ![t] =
                      [at |-> "status_read", session |-> threads[t].session,
                       fresh |-> threads[t].fresh,
                       status |-> StatusData(session_data.initialized,
                                             tables, links, model)]]
    /\ UNCHANGED << env_api_key, env_api_url, session_data, auth_calls,
                    retrievals, retrieved, authenticated, result >>
    /\ UNCHANGED Others

\* get_session_status returns what it has built.
status_return(t) ==
    /\ threads[t].at = "status_read"
    /\ result' = [Result("get_session_status", TRUE, "returned",
                         "Session status retrieved successfully", << >>)
                     EXCEPT !.data = threads[t].status]
    /\ threads' = [threads EXCEPT ![t] = Idle]
    /\ UNCHANGED << env_api_key, env_api_url, session_data, auth_calls,
                    retrievals, retrieved, authenticated >>
    /\ UNCHANGED Others

\* tools/model.py predict and evaluate up to asyncio.to_thread: the handle is
\* read from the session and kept in the closure the worker thread will run.
offload(t, op) ==
    /\ threads[t] = Idle
    /\ threads' = [threads EXCEPT ![t] =
                      [at |-> "offloaded", op |-> op, handle |-> model]]
    /\ UNCHANGED << env_api_key, env_api_url, session_data, auth_calls,
                    retrievals, retrieved, authenticated, result >>
    /\ UNCHANGED Others

predict_offload(t) == offload(t, "predict")

evaluate_offload(t) == offload(t, "evaluate")

\* The worker thread runs _predict / _evaluate: the call is made on the handle
\* of the closure; every exception becomes a ToolError.
worker_run(t, call_ok) ==
    /\ threads[t].at = "offloaded"
    /\ LET op == threads[t].op
           h == threads[t].handle
           call == IF op = "predict" THEN "model.predict" ELSE "model.evaluate"
       IN  result' =
               IF h = NoModel
               THEN [Result(op, FALSE, "raised", "ToolError: failed", << >>)
                        EXCEPT !.arg = h]
               ELSE IF call_ok
               THEN [Result(op, TRUE, "returned", "response", << call >>)
                        EXCEPT !.arg = h]
               ELSE [Result(op, FALSE, "raised", "ToolError: failed", << call >>)
                        EXCEPT !.arg = h]
    /\ threads' = [threads EXCEPT ![t] = Idle]
    /\ UNCHANGED << env_api_key, env_api_url, session_data, auth_calls,
                    retrievals, retrieved, authenticated >>
    /\ UNCHANGED Others

\* server.py finalize_graph, first try block: graph = session.graph and
\* graph.validate().
finalize_validate(t) ==
    /\ threads[t] = Idle
    /\ IF ~Validate(tables, links)
       THEN /\ result' = [Result("finalize_graph", FALSE, "returned",
                                 "Encountered error while validating graph",
                                 << "graph.validate" >>)
                             EXCEPT !.data = Violations(tables, links)]
            /\ UNCHANGED threads
       ELSE /\ threads' = [threads EXCEPT ![t] = [at |-> "validated"]]
            /\ UNCHANGED result
    /\ UNCHANGED << env_api_key, env_api_url, session_data, auth_calls,
                    retrievals, retrieved, authenticated >>
    /\ UNCHANGED Others

\* model = rfm.KumoRFM(graph): the handle is built from the graph as it is
\* when the constructor runs.
finalize_construct(t, ctor_ok) ==
    /\ threads[t] = [at |-> "validated"]
    /\ IF ctor_ok
       THEN /\ handles < MaxHandles
            /\ handles' = handles + 1
            /\ threads' = [threads EXCEPT ![t] =
                              [at |-> "constructed", handle |-> handles + 1,
                               graph |-> << tables, links >>]]
            /\ UNCHANGED result
       ELSE /\ result' = Result("finalize_graph", FALSE, "returned",
                                "Failed to spin up KumoRFM model",
                                << "graph.validate", "KumoRFM" >>)
            /\ threads' = [threads EXCEPT ![t] = Idle]
            /\ UNCHANGED handles
    /\ UNCHANGED << env_api_key, env_api_url, session_data, auth_calls,
                    retrievals, retrieved, authenticated >>
    /\ UNCHANGED << tables, links, model, last_update, catalog >>

\* session.model = model, and the success dict.
finalize_store(t) ==
    /\ threads[t].at = "constructed"
    /\ model' = threads[t].handle
    /\ result' = [Result("finalize_graph", TRUE, "returned",
                         "Successfully spun up KumoRFM model",
                         << "graph.validate", "KumoRFM" >>)
                     EXCEPT !.arg = threads[t].graph]
    /\ threads' = [threads EXCEPT ![t] = Idle]
    /\ UNCHANGED << env_api_key, env_api_url, session_data, auth_calls,
                    retrievals, retrieved, authenticated >>
    /\ UNCHANGED << tables, links, handles, last_update, catalog >>

\* The table the calls in steps work on, and the updates made to it.
WorkerAdds == { [file |-> FileOf("users.csv"), name |-> "USERS"] }

WorkerUpdates ==
    { TableUpdate("USERS", << StypeEntry("AGE", "categorical") >>,
                  FALSE, None, FALSE, None),
      TableUpdate("USERS", << StypeEntry("AGE", "numerical") >>,
                  FALSE, None, FALSE, None),
      TableUpdate("USERS", << StypeEntry("USER_ID", "timestamp") >>,
                  FALSE, None, FALSE, None) }

NextWorkers ==
    \/ \E a \in WorkerAdds : add_table(a.file, a.name, Detected)
    \/ \E u \in WorkerUpdates :
           /\ update_graph_metadata(Update(<< >>, << u >>, << >>, << >>, << >>))
           /\ UNCHANGED last_update
    \/ \E t \in Threads : finalize_validate(t)
    \/ \E t \in Threads, ctor_ok \in BOOLEAN : finalize_construct(t, ctor_ok)
    \/ \E t \in Threads : finalize_store(t)
    \/ \E t \in Threads : predict_offload(t)
    \/ \E t \in Threads : evaluate_offload(t)
    \/ \E t \in Threads, call_ok \in BOOLEAN : worker_run(t, call_ok)

SpecWorkers == InitGraph /\ [][NextWorkers]_vars

NextStartup ==
    \/ \E t \in Threads : initialize_begin(t)
    \/ \E t \in Threads, init_ok \in BOOLEAN : initialize_end(t, init_ok)
    \/ \E t \in Threads : status_enter(t)
    \/ \E t \in Threads : status_read(t)
    \/ \E t \in Threads : status_return(t)

SpecStartup == Init /\ [][NextStartup]_vars

\* ------------------------------------------- catalog and metadata round trip
\* A session that carries the catalog attribute the handlers look for.
InitCatalog == Started /\ catalog = EmptyCatalog

\* The client passes what inspect_metadata returned to update_metadata.
round_trip == update_metadata(GraphMetadata(tables, links, catalog), Detected)

NextCatalog ==
    \/ \E a \in AddInputs : add_table(a.file, a.name, Detected)
    \/ \E n \in NameInputs : remove_table(n)
    \/ \E l \in LinkInputs : link_tables(l)
    \/ \E u \in TableUpdateInputs :
           /\ update_graph_metadata(Update(<< >>, << u >>, << >>, << >>, << >>))
           /\ UNCHANGED last_update
    \/ \E m \in MetadataInputs : update_metadata(m, Detected)
    \/ inspect_metadata
    \/ round_trip
    \/ \E ctor_ok \in BOOLEAN : finalize_graph(ctor_ok)
    \/ clear_session

SpecCatalog == InitCatalog /\ [][NextCatalog]_vars

\* ================================================================ claims
MutatingOps ==
    {"add_table", "remove_table", "link_tables", "unlink_tables",
     "infer_links", "update_graph_metadata", "update_metadata"}

QueryOps == {"predict", "evaluate", "validate_query"}

\* C1: after any successful graph-mutating operation the session's model
\* handle is absent.
C1_StalenessRule ==
    [][(result'.op \in MutatingOps /\ result'.ok) => model' = NoModel]_vars

C3_Materialize ==
    [][result'.op = "finalize_graph" =>
          /\ ~Validate(tables, links) => ~result'.ok
          /\ IF result'.ok
             THEN /\ handles' = handles + 1
                  /\ model' = handles'
                  /\ model' # NoModel
                  /\ model' # model
             ELSE model' = model /\ handles' = handles]_vars

C3_Witness ==
    /\ result.op = "finalize_graph"
    /\ result.ok
    /\ model = 2
    /\ handles = 2

\* C4: without a credential initialize raises, makes no authenticate call and
\* leaves the session uninitialized; when authenticate raises, the error
\* propagates and the session is uninitialized.
C4_InitializeRaises ==
    result.op = "initialize" =>
        /\ env_api_key = None =>
              /\ result.how = "raised"
              /\ result.calls = << >>
              /\ ~session_data.initialized
        /\ (result.calls = << "kumo.init" >> /\ ~result.ok) =>
              /\ result.how = "raised"
              /\ ~session_data.initialized

\* C5: once the session is initialized a further initialize call is a no-op:
\* no further authenticate call, and the flag stays true.
C5_InitializeIdempotent ==
    [][(session_data.initialized /\ result'.op = "initialize") =>
          /\ auth_calls' = auth_calls
          /\ session_data'.initialized]_vars

\* C6: no operation other than an explicit initialize call authenticates or
\* changes the initialized flag, and an initialize call authenticates at most
\* once: a failed initialization is never re-attempted automatically.
C6_NoAutomaticRetry ==
    [][/\ result'.op # "initialize" =>
             /\ auth_calls' = auth_calls
             /\ session_data'.initialized = session_data.initialized
       /\ result'.op = "initialize" =>
             /\ auth_calls' <= auth_calls + 1
             /\ Len(result'.calls) <= 1]_vars

C6_Witness ==
    /\ ~session_data.initialized
    /\ session_data.api_key # None
    /\ auth_calls >= 1
    /\ result.op \in {"get_session_status", "predict", "finalize_graph"}

\* C7: every get_session call returns the one instance named "default", and
\* with a credential available the first retrieval returns it initialized.
C7_Singleton ==
    [][result'.op = "get_session" =>
          /\ retrieved' = {DefaultInstance}
          /\ session_data'.session_id = "default"
          /\ (retrievals = 0 /\ env_api_key # None /\ auth_calls = 0) =>
                session_data'.initialized]_vars

\* One item of a batch applied on its own to the graph g: g.errors grows by
\* one and the graph is kept when the item is invalid.
BestEffortStep(kind, g, item) ==
    LET g0 == Graph(g.tables, g.links, TRUE)
        r == CASE kind = "add" ->
                    IF CanLoad(item.file.path) /\ CanAddTable(g.tables, item.name)
                    THEN [g0 EXCEPT !.tables = Append(g.tables,
                             InferMetadata(item.file.path, item.name,
                                           [pk |-> FALSE, tc |-> FALSE]))]
                    ELSE Failed(g0)
               [] kind = "update" -> UpdateTable(g0, item)
               [] kind = "unlink" -> RemoveLinks(g0, << item >>)
               [] kind = "link" -> AddLinks(g0, << item >>)
               [] kind = "remove" ->
                    IF CanRemoveTable(g.tables, item)
                    THEN Graph(RemoveTableTables(g.tables, item),
                               RemoveTableLinks(g.links, item), TRUE)
                    ELSE Failed(g0)
    IN  IF r.ok
        THEN [tables |-> r.tables, links |-> r.links, errors |-> g.errors]
        ELSE [g EXCEPT !.errors = g.errors + 1]

RECURSIVE BestEffortEach(_, _, _)
BestEffortEach(kind, g, items) ==
    IF items = << >> THEN g
    ELSE BestEffortEach(kind, BestEffortStep(kind, g, Head(items)), Tail(items))

\* The five groups of a batch in the order additions, updates, link removals,
\* link additions, table removals, each item on its own.
InFixedOrder(ts, ls, update) ==
    BestEffortEach("remove",
        BestEffortEach("link",
            BestEffortEach("unlink",
                BestEffortEach("update",
                    BestEffortEach("add",
                        [tables |-> ts, links |-> ls, errors |-> 0],
                        update.tables_to_add),
                    update.tables_to_update),
                update.links_to_remove),
            update.links_to_add),
        update.tables_to_remove)

\* C8: a batch whose items are all valid when its groups are applied in the
\* order additions, updates, link removals, link additions, table removals
\* succeeds and leaves the graph that order produces.
C8_GroupOrder ==
    [][result'.op = "update_graph_metadata" =>
          LET e == InFixedOrder(tables, links, last_update')
          IN  e.errors = 0 =>
                 /\ result'.ok
                 /\ TableNames(tables') = TableNames(e.tables)
                 /\ links' = e.links]_vars

\* C9: a batch of table updates, link removals and link additions with
\* exactly one invalid item returns, and the graph it leaves reflects every
\* other item.
C9_BestEffort ==
    [][(/\ result'.op = "update_graph_metadata"
        /\ last_update'.tables_to_add = << >>
        /\ last_update'.tables_to_remove = << >>) =>
          LET e == InFixedOrder(tables, links, last_update')
          IN  e.errors = 1 =>
                 /\ result'.how = "returned"
                 /\ tables' = e.tables
                 /\ links' = e.links]_vars

\* C10: every exposed operation ends by returning a structured result; none
\* raises across the tool boundary.
C10_NothingRaised == result.how = "returned"

\* The columns an entry of tables_to_update names in its stypes.
NamedColumns(item) == { item.stypes[i].col : i \in DOMAIN item.stypes }

\* C11: after a successful update, for every entry of tables_to_update the
\* table's primary key (time column) is the entry's value when the entry
\* sets the field, None included, and the old one when the entry omits it;
\* columns the entry does not name keep their semantic type, and tables no
\* entry names are unchanged.
C11_TriState ==
    [][(result'.op = "update_graph_metadata" /\ result'.ok) =>
          LET items == last_update'.tables_to_update
              named == { items[k].name : k \in DOMAIN items }
          IN  /\ Len(tables') = Len(tables)
              /\ \A i \in DOMAIN tables :
                    tables[i].name \notin named => tables'[i] = tables[i]
              /\ \A k \in DOMAIN items :
                    LET item == items[k]
                        old == GetTable(tables, item.name)
                        new == GetTable(tables', item.name)
                    IN  /\ new.primary_key =
                              IF item.has_primary_key THEN item.primary_key
                              ELSE old.primary_key
                        /\ new.time_column =
                              IF item.has_time_column THEN item.time_column
                              ELSE old.time_column
                        /\ \A c \in DOMAIN old.stypes \ NamedColumns(item) :
                              new.stypes[c] = old.stypes[c]]_vars

C11_Witness ==
    /\ result.op = "update_graph_metadata"
    /\ result.ok
    /\ Len(last_update.tables_to_update) = 1
    /\ ~last_update.tables_to_update[1].has_primary_key
    /\ last_update.tables_to_update[1].has_time_column
    /\ GetTable(tables, last_update.tables_to_update[1].name).primary_key # None

\* The entry of get_graph_metadata for the table called name.
Listed(ts, ls, name) ==
    get_graph_metadata(ts, ls).tables[TableIndex(ts, name)]

\* C12: after a successful update, get_graph_metadata lists every column an
\* entry names with its data type and with exactly the semantic type the
\* entry gives, None for a discarded column; no column leaves the listing and
\* the columns the entry does not name keep their semantic type.
C12_DiscardKeepsColumn ==
    [][(result'.op = "update_graph_metadata" /\ result'.ok) =>
          \A k \in DOMAIN last_update'.tables_to_update :
              LET item == last_update'.tables_to_update[k]
                  old == Listed(tables, links, item.name)
                  new == Listed(tables', links', item.name)
              IN  /\ DOMAIN new.stypes = DOMAIN old.stypes
                  /\ DOMAIN new.dtypes = DOMAIN old.dtypes
                  /\ \A i \in DOMAIN item.stypes :
                        /\ item.stypes[i].col \in DOMAIN new.stypes
                        /\ new.stypes[item.stypes[i].col] = item.stypes[i].stype
                        /\ new.dtypes[item.stypes[i].col] =
                              Dtype(item.stypes[i].col)
                  /\ \A c \in DOMAIN old.stypes \ NamedColumns(item) :
                        new.stypes[c] = old.stypes[c]]_vars

C12_Witness ==
    /\ result.op = "update_graph_metadata"
    /\ result.ok
    /\ Len(last_update.tables_to_update) = 1
    /\ last_update.tables_to_update[1].stypes = << StypeEntry("AGE", None) >>
    /\ "AGE" \in DOMAIN Listed(tables, links, "USERS").stypes
    /\ Listed(tables, links, "USERS").stypes["AGE"] = None
    /\ Listed(tables, links, "USERS").stypes["USER_ID"] = "ID"

\* C13: a successful link_tables appends its link and leaves the tables
\* alone, and an unlink_tables of the same triple right after it succeeds
\* and takes the link list and the table list back to what they were before
\* the link.
C13_LinkRoundTrip ==
    [][/\ (result'.op = "link_tables" /\ result'.ok) =>
             /\ links' = Append(links, result'.arg)
             /\ tables' = tables
       /\ (/\ result.op = "link_tables"
           /\ result.ok
           /\ result'.op = "unlink_tables"
           /\ result'.arg = result.arg) =>
             /\ result'.ok
             /\ links' = SubSeq(links, 1, Len(links) - 1)
             /\ tables' = tables]_vars

C13_Witness ==
    /\ result.op = "unlink_tables"
    /\ result.ok
    /\ result.arg = Link("USERS", "USER_ID", "ORDERS")
    /\ links = << Link("ORDERS", "USER_ID", "USERS") >>

\* The link l has the table called name at one of its ends.
Touches(l, name) == l.source_table = name \/ l.destination_table = name

\* C14: remove_table(name) fails and changes nothing when name is not a
\* table of the graph; otherwise it succeeds, the tables left are the other
\* tables in their order, the links left are the links that do not touch
\* name in their order, and no link left has a missing endpoint.
C14_RemoveCascades ==
    [][result'.op = "remove_table" =>
          LET name == result'.arg
              OtherTable(t) == t.name # name
              OtherLink(l) == ~Touches(l, name)
          IN  IF name \notin TableNames(tables)
              THEN ~result'.ok /\ tables' = tables /\ links' = links
              ELSE /\ result'.ok
                   /\ name \notin TableNames(tables')
                   /\ tables' = SelectSeq(tables, OtherTable)
                   /\ links' = SelectSeq(links, OtherLink)
                   /\ \A i \in DOMAIN links' :
                         /\ links'[i].source_table \in TableNames(tables')
                         /\ links'[i].destination_table \in TableNames(tables')]_vars

C14_Witness ==
    /\ result.op = "remove_table"
    /\ result.ok
    /\ result.arg = "USERS"
    /\ TableNames(tables) = {"ORDERS"}
    /\ links = << >>

C16_DestinationHasPrimaryKey ==
    \A i \in DOMAIN links :
        links[i].destination_table \in TableNames(tables) =>
            GetTable(tables, links[i].destination_table).primary_key # None

\* C17: in every reachable state no link's foreign key is the primary key of
\* the link's source table.
C17_ForeignKeyNotOwnPrimaryKey ==
    \A i \in DOMAIN links :
        links[i].source_table \in TableNames(tables) =>
            GetTable(tables, links[i].source_table).primary_key
                # links[i].foreign_key

\* C18: in every reachable state the primary key and the time column of
\* every table, when set, name columns of the table with semantic type ID
\* and timestamp, and they are different columns.
C18_TableMetadataValid ==
    \A i \in DOMAIN tables :
        LET t == tables[i]
        IN  /\ t.primary_key # None =>
                  /\ t.primary_key \in DOMAIN t.stypes
                  /\ t.stypes[t.primary_key] = "ID"
            /\ t.time_column # None =>
                  /\ t.time_column \in DOMAIN t.stypes
                  /\ t.stypes[t.time_column] = "timestamp"
            /\ t.primary_key # None => t.primary_key # t.time_column

\* C19: link_tables returns a failure carrying the error and changes neither
\* links nor tables whenever the source or the destination is not a table,
\* the foreign key is not a column of the source, or the destination has no
\* primary key; when it succeeds it appends exactly its link and changes
\* nothing else.
C19_LinkFailsOrAppends ==
    [][result'.op = "link_tables" =>
          LET l == result'.arg
              unknown == \/ l.source_table \notin TableNames(tables)
                         \/ l.destination_table \notin TableNames(tables)
              bad == \/ unknown
                     \/ l.foreign_key \notin
                           DOMAIN GetTable(tables, l.source_table).stypes
                     \/ GetTable(tables, l.destination_table).primary_key = None
          IN  /\ result'.how = "returned"
              /\ bad => ~result'.ok
              /\ ~result'.ok =>
                    /\ result'.msg = "Failed to link"
                    /\ links' = links
              /\ result'.ok => links' = Append(links, l)
              /\ tables' = tables
              /\ model' = model]_vars

C19_Witness ==
    /\ result.op = "link_tables"
    /\ ~result.ok
    /\ result.arg = Link("ORDERS", "NOPE", "USERS")
    /\ TableNames(tables) = {"USERS", "ORDERS"}
    /\ GetTable(tables, "USERS").primary_key = "USER_ID"

\* No triple is in the list twice.
NoDuplicates(ls) == \A i, j \in DOMAIN ls : ls[i] = ls[j] => i = j

\* C20: link_tables with a triple that is already in the link list fails and
\* leaves the list as it is, and after every step the link list holds no
\* triple twice.
C20_DuplicateLinkRejected ==
    [][/\ (result'.op = "link_tables" /\ result'.arg \in LinkSet(links)) =>
             /\ ~result'.ok
             /\ links' = links
       /\ NoDuplicates(links')]_vars

C20_Witness ==
    /\ result.op = "link_tables"
    /\ ~result.ok
    /\ result.arg \in LinkSet(links)

\* C21: unlink_tables returns a failure and leaves the link list as it is
\* when its exact triple is not in the list; otherwise it succeeds and the
\* list afterwards is the list before without that triple, one entry
\* shorter, every other link in its place; the tables never change.
C21_UnlinkExactTriple ==
    [][result'.op = "unlink_tables" =>
          LET l == result'.arg
              Other(x) == x # l
          IN  /\ result'.how = "returned"
              /\ tables' = tables
              /\ IF l \notin LinkSet(links)
                 THEN ~result'.ok /\ links' = links
                 ELSE /\ result'.ok
                      /\ links' = SelectSeq(links, Other)
                      /\ Len(links') = Len(links) - 1
                      /\ l \notin LinkSet(links')]_vars

C21_Witness ==
    /\ result.op = "unlink_tables"
    /\ ~result.ok
    /\ result.arg = Link("ORDERS", "NOPE", "USERS")
    /\ links = << Link("ORDERS", "USER_ID", "USERS") >>

\* The names of the tables are pairwise different.
UniqueNames(ts) == \A i, j \in DOMAIN ts : ts[i].name = ts[j].name => i = j

\* C22: add_table with a name that a table of the graph already has returns
\* a failure and leaves tables and links as they are; after every step the
\* table names are pairwise different; and a remove_table right after a
\* successful remove_table of the same name fails.
C22_NamesUnique ==
    [][/\ (/\ result'.op = "add_table"
           /\ result'.arg.name \in TableNames(tables)) =>
             /\ result'.how = "returned"
             /\ ~result'.ok
             /\ tables' = tables
             /\ links' = links
       /\ UniqueNames(tables')
       /\ (/\ result.op = "remove_table"
           /\ result.ok
           /\ result'.op = "remove_table"
           /\ result'.arg = result.arg) =>
             /\ ~result'.ok
             /\ tables' = tables
             /\ links' = links]_vars

C22_Witness ==
    /\ result.op = "add_table"
    /\ ~result.ok
    /\ result.msg = "Failed to register table"
    /\ result.arg.name = "USERS"
    /\ TableNames(tables) = {"USERS", "ORDERS"}

\* The single operations of the graph and the failures that are input errors.
SingleOps ==
    {"add_table", "remove_table", "link_tables", "unlink_tables",
     "update_metadata", "finalize_graph"}

InputError(r) ==
    /\ r.op \in SingleOps
    /\ ~r.ok
    /\ r.msg # "Failed to spin up KumoRFM model"

\* C23: when add_table, remove_table, link_tables, unlink_tables,
\* update_metadata or finalize_graph fails with an input error, the tables
\* with their column metadata, the links and the model handle after the call
\* are those before the call.
C23_InputErrorsChangeNothing ==
    [][InputError(result') =>
          /\ tables' = tables
          /\ links' = links
          /\ model' = model]_vars

\* C24: an update_graph_metadata whose entry for a table of the graph sets
\* the time column (the primary key) to a name that is not a column of that
\* table fails, and the table's time column (primary key) after the call is
\* the one before it.
C24_MissingColumnRejected ==
    [][result'.op = "update_graph_metadata" =>
          \A k \in DOMAIN last_update'.tables_to_update :
              LET item == last_update'.tables_to_update[k]
              IN  item.name \in TableNames(tables) =>
                    LET before == GetTable(tables, item.name)
                        after == GetTable(tables', item.name)
                        Missing(col) ==
                            col # None /\ col \notin DOMAIN before.stypes
                    IN  /\ (item.has_time_column /\ Missing(item.time_column)) =>
                              /\ ~result'.ok
                              /\ after.time_column = before.time_column
                        /\ (item.has_primary_key /\ Missing(item.primary_key)) =>
                              /\ ~result'.ok
                              /\ after.primary_key = before.primary_key]_vars

C24_Witness ==
    /\ result.op = "update_graph_metadata"
    /\ ~result.ok
    /\ Len(last_update.tables_to_update) = 2
    /\ last_update.tables_to_update[2].time_column = "NOPE"
    /\ TableNames(tables) = {"USERS", "ORDERS"}
    /\ GetTable(tables, "ORDERS").time_column = "TIME"

\* C25: clear_session succeeds from every state and leaves a graph without
\* tables and links and no model handle, with the initialized flag as it
\* was; a get_session_status right after it reports no table names, zero
\* links and a model that is not ready; and no operation other than
\* initialize changes the initialized flag.
C25_ClearResets ==
    [][/\ result'.op = "clear_session" =>
             /\ result'.ok
             /\ tables' = << >>
             /\ links' = << >>
             /\ model' = NoModel
             /\ session_data'.initialized = session_data.initialized
       /\ (result.op = "clear_session" /\ result'.op = "get_session_status") =>
             result'.data = [initialized |-> session_data.initialized,
                             table_names |-> << >>,
                             num_links |-> 0,
                             is_rfm_model_ready |-> FALSE]
       /\ result'.op # "initialize" =>
             session_data'.initialized = session_data.initialized]_vars

C25_Witness ==
    /\ result.op = "clear_session"
    /\ handles >= 1
    /\ session_data.initialized
    /\ tables = << >>
    /\ model = NoModel

ReadOps ==
    {"inspect_graph_metadata", "inspect_graph", "list_tables", "inspect_table",
     "inspect_metadata", "get_session_status"}

\* C26: inspect_graph_metadata, inspect_graph, list_tables, inspect_table,
\* inspect_metadata and get_session_status change neither tables, links,
\* model handle nor the initialized flag, and what each returns is read from
\* the state at the time of the call: the table names in order, the links,
\* each table's primary key and time column, and whether a model is held.
C26_ReadsPureAndFresh ==
    [][result'.op \in ReadOps =>
          LET d == result'.data
          IN  /\ tables' = tables
              /\ links' = links
              /\ model' = model
              /\ session_data' = session_data
              /\ result'.op = "get_session_status" =>
                    /\ d.initialized = session_data.initialized
                    /\ d.table_names = NameList(tables)
                    /\ d.num_links = Len(links)
                    /\ d.is_rfm_model_ready = (model # NoModel)
              /\ result'.op \in {"inspect_graph_metadata", "inspect_metadata"} =>
                    /\ NameList(d.tables) = NameList(tables)
                    /\ d.links = links
                    /\ \A i \in DOMAIN tables :
                          d.tables[i].time_column = tables[i].time_column
              /\ result'.op = "inspect_graph_metadata" =>
                    \A i \in DOMAIN tables :
                        d.tables[i].primary_key = tables[i].primary_key
              /\ result'.op = "inspect_graph" =>
                    /\ DOMAIN d.tables = TableNames(tables)
                    /\ d.links = links
              /\ result'.op = "list_tables" =>
                    /\ DOMAIN d = TableNames(tables)
                    /\ \A n \in DOMAIN d :
                          d[n].primary_key = GetTable(tables, n).primary_key
              /\ result'.op = "inspect_table" =>
                    /\ result'.ok = (result'.arg \in TableNames(tables))
                    /\ result'.ok =>
                          /\ d.primary_key =
                                GetTable(tables, result'.arg).primary_key
                          /\ d.time_column =
                                GetTable(tables, result'.arg).time_column]_vars

C26_Witness ==
    /\ result.op = "get_session_status"
    /\ handles >= 1
    /\ ~result.data.is_rfm_model_ready
    /\ result.data.table_names = << "USERS", "ORDERS" >>
    /\ result.data.num_links = 1

\* C27: after a successful add_table(path, name), get_graph_metadata lists
\* the tables it listed before, unchanged and in the same order, followed by
\* one table called name whose columns are the columns of the file at path;
\* no other table has that name and the links are unchanged.  A successful
\* remove_table keeps the other tables in their order.
C27_AddAppends ==
    [][/\ (result'.op = "add_table" /\ result'.ok) =>
             LET before == get_graph_metadata(tables, links)
                 after == get_graph_metadata(tables', links')
                 n == Len(before.tables)
                 name == result'.arg.name
             IN  /\ Len(after.tables) = n + 1
                 /\ SubSeq(after.tables, 1, n) = before.tables
                 /\ after.tables[n + 1].name = name
                 /\ DOMAIN after.tables[n + 1].stypes
                       = FileColumns(result'.arg.path)
                 /\ DOMAIN after.tables[n + 1].dtypes
                       = FileColumns(result'.arg.path)
                 /\ \A i \in 1..n : after.tables[i].name # name
                 /\ after.links = before.links
       /\ (result'.op = "remove_table" /\ result'.ok) =>
             LET Other(n) == n # result'.arg
             IN  NameList(tables') = SelectSeq(NameList(tables), Other)]_vars

C27_Witness ==
    /\ result.op = "add_table"
    /\ result.ok
    /\ result.arg = [path |-> "users.csv", name |-> "USERS"]
    /\ NameList(tables) = << "ORDERS", "USERS" >>
    /\ DOMAIN GetTable(tables, "USERS").stypes = {"USER_ID", "AGE"}

\* C28: the table a successful add_table registers is listed by
\* get_graph_metadata with no primary key and no time column.
C28_NoKeysByDefault ==
    [][(result'.op = "add_table" /\ result'.ok) =>
          LET t == Listed(tables', links', result'.arg.name)
          IN  /\ t.primary_key = None
              /\ t.time_column = None]_vars

\* The graph of the scenario after its tables, keys and links are in place.
ScenarioBuilt(ts, ls) ==
    /\ NameList(ts) = << "USERS", "ORDERS", "STORES" >>
    /\ GetTable(ts, "USERS").primary_key = "USER_ID"
    /\ GetTable(ts, "ORDERS").time_column = "TIME"
    /\ GetTable(ts, "STORES").primary_key = "STORE_ID"
    /\ ls = ScenarioLinks

\* C29: from the graph with USERS (primary key USER_ID), ORDERS (time column
\* TIME) and STORES (primary key STORE_ID) and the links (ORDERS, USER_ID,
\* USERS) and (ORDERS, STORE_ID, STORES), the update that removes the first
\* link and the table STORES succeeds and leaves 2 tables and 0 links.
C29_Scenario ==
    [][(/\ ScenarioBuilt(tables, links)
        /\ result'.op = "update_graph_metadata"
        /\ last_update' = ScenarioFinal) =>
          /\ result'.ok
          /\ Len(get_graph_metadata(tables', links').tables) = 2
          /\ Len(get_graph_metadata(tables', links').links) = 0]_vars

\* The first half of the scenario: 3 tables, 2 links, the last call a success.
C29_Witness ==
    /\ ScenarioBuilt(tables, links)
    /\ result.ok
    /\ Len(get_graph_metadata(tables, links).tables) = 3
    /\ Len(get_graph_metadata(tables, links).links) = 2

\* The result reports a failed validation.
InvalidGraph(r) ==
    r.op = "finalize_graph" /\ r.msg = "Encountered error while validating graph"

ClosesCycle(ls, l) ==
    \/ l.source_table = l.destination_table
    \/ \E i \in DOMAIN ls : /\ ls[i].source_table = l.destination_table
                            /\ ls[i].destination_table = l.source_table

C32_ItemTransactional ==
    [][result'.op = "update_graph_metadata" =>
          LET items == last_update'.tables_to_update
              Upto(k) == UpdateTables(Graph(tables, links, TRUE),
                                      SubSeq(items, 1, k))
          IN  \A k \in DOMAIN items :
                  (/\ Upto(k - 1).ok
                   /\ ~Upto(k).ok
                   /\ items[k].name \in TableNames(tables)) =>
                      GetTable(tables', items[k].name)
                          = GetTable(Upto(k - 1).tables, items[k].name)]_vars

\* C33: after every update_graph_metadata call the model handle is absent,
\* whether the call changed the graph, changed nothing or raised.
C33_UpdateResetsModel ==
    [][result'.op = "update_graph_metadata" => model' = NoModel]_vars

C33_Witness ==
    /\ result.op = "update_graph_metadata"
    /\ ~result.ok
    /\ handles >= 1
    /\ model = NoModel
    /\ tables = << >>

\* C34: a successful update_metadata works in replace mode.  The graph holds
\* exactly the tables of the metadata given, in that order, and exactly the
\* links given, so no table or link of the graph before survives; the counts
\* tables_added and links_added it reports are the lengths of the two lists;
\* and the session holds no model.
C34_ReplaceMode ==
    [][(result'.op = "update_metadata" /\ result'.ok) =>
          LET md == result'.arg
          IN  /\ [i \in DOMAIN tables' |-> tables'[i].name]
                     = [i \in DOMAIN md.tables |-> md.tables[i].name]
              /\ links' = md.links
              /\ result'.data = [tables_added |-> Len(md.tables),
                                 links_added |-> Len(md.links)]
              /\ model' = NoModel]_vars

\* A model had been built before a successful update_metadata put two tables
\* and one link in place.
C34_Witness ==
    /\ result.op = "update_metadata"
    /\ result.ok
    /\ Len(result.arg.tables) = 2
    /\ Len(result.arg.links) = 1
    /\ handles >= 1
    /\ model = NoModel

\* C35: metadata round trip.  update_metadata called with what
\* inspect_metadata returns for the session succeeds and leaves the graph as
\* it was: the same table names, the same primary key and time column for
\* each table (one that was cleared stays cleared), the same retained columns
\* with the same semantic types, and the same links.
C35_RoundTrip ==
    [][(/\ result'.op = "update_metadata"
        /\ result'.arg = GraphMetadata(tables, links, catalog)) =>
          /\ result'.ok
          /\ DOMAIN tables' = DOMAIN tables
          /\ \A i \in DOMAIN tables :
                 /\ tables'[i].name = tables[i].name
                 /\ tables'[i].primary_key = tables[i].primary_key
                 /\ tables'[i].time_column = tables[i].time_column
                 /\ \A col \in DOMAIN tables[i].stypes :
                        tables'[i].stypes[col] = tables[i].stypes[col]
          /\ links' = links]_vars

\* A round trip over a linked graph one of whose tables had its primary key
\* cleared.
C35_Witness ==
    /\ result.op = "update_metadata"
    /\ Len(result.arg.tables) = 2
    /\ Len(result.arg.links) = 1
    /\ \E i \in DOMAIN result.arg.tables :
           /\ result.arg.tables[i].primary_key = ""
           /\ PkCandidate(result.arg.tables[i].path) # None

\* C36: catalog consistency.  After any sequence of add_table, remove_table,
\* update_metadata and clear_session the catalog of a session that has one
\* holds an entry for exactly the tables of the graph, each with the path the
\* table was loaded from.
C36_CatalogConsistent ==
    catalog.attached =>
        /\ CatalogNames(catalog) = TableNames(tables)
        /\ \A i \in DOMAIN tables :
               CatalogPath(catalog, tables[i].name) = tables[i].path

\* clear_session has run on a session whose catalog held an entry.
C36_Witness ==
    /\ result.op = "clear_session"
    /\ catalog.attached
    /\ catalog.entries # {}

\* C37: the initialized flag is true only when external authentication has
\* completed successfully, in every reachable state, the states inside
\* initialize included (before kumo.init returns and after it has raised).
C37_InitializedOnlyWhenAuthenticated ==
    session_data.initialized => authenticated

\* A thread stands inside initialize, at the call of kumo.init.
C37_Witness ==
    \E t \in Threads : threads[t] = [at |-> "kumo.init"]

\* C38: concurrent first access.  When two tool calls have reached the
\* not-yet-initialized session at the same time, kumo.init has been invoked
\* at most once and both calls observe the same, initialized session.
C38_ConcurrentFirstAccess ==
    \A t, u \in Threads :
        (/\ t # u
         /\ threads[t].at = "status_read" /\ threads[t].fresh
         /\ threads[u].at = "status_read" /\ threads[u].fresh) =>
            /\ auth_calls <= 1
            /\ threads[t].session = threads[u].session
            /\ threads[t].status.initialized
            /\ threads[u].status.initialized

\* Two calls are inside get_session_status at once, both having reached the
\* session before it was initialized.
C38_Witness ==
    \A t \in Threads : threads[t].at = "status_read" /\ threads[t].fresh

\* C39: predict and evaluate offloaded to a worker thread never succeed on an
\* invalidated handle.  When the worker thread returns a success, the handle
\* it ran on is the handle the session holds: a graph mutation that completed
\* after the handle was read has not made it absent in the meantime.
C39_NoStaleOffloadedCall ==
    [][\A t \in Threads :
          (/\ threads[t].at = "offloaded"
           /\ threads'[t] = Idle
           /\ result'.ok) => threads[t].handle = model]_vars

\* A mutation has completed, and made the handle absent, after a call read
\* the handle and before its worker thread ran.
C39_Witness ==
    \E t \in Threads :
        /\ threads[t].at = "offloaded"
        /\ threads[t].handle # NoModel
        /\ model = NoModel
        /\ result.op = "update_graph_metadata"

====
